---- MODULE Spec2Model ----
(***************************************************************************)
(* A model of the data-source layer of cc-analyst:                         *)
(*   src/src/data_source_interface.py   DataSourceRegistry                 *)
(*   src/src/data_sources/ecb_data_source.py   ECBDataSource               *)
(*   src/src/data_manager.py            DataManager                        *)
(*                                                                         *)
(* Python values are modelled as follows.                                  *)
(*  - a str is a TLA+ string when it is only compared, and a tuple of      *)
(*    one-character strings when the code looks inside it (dates);         *)
(*  - an f-string is the tuple of its literal parts and its values;        *)
(*  - a dict with fixed keys is a record, a key being present exactly when *)
(*    it is in the record's DOMAIN; an insertion-ordered dict with         *)
(*    computed keys is a record [keys, val];                               *)
(*  - a raised exception is the record [raised |-> <exception type>].      *)
(***************************************************************************)
EXTENDS Integers, Sequences, FiniteSets, TLC

VARIABLES
    registry,      \* DataSourceRegistry._sources: [keys: Seq(id), val: id -> instance]
    instances,     \* number of ECBDataSource objects constructed so far
    managers,      \* number of DataManager objects constructed so far
    register_calls,\* the register_source calls made so far, in order
    pc,            \* position of the one (synchronous) query call
    caller,        \* "manager": DataManager.query_data, "plugin": ECBDataSource.query_data,
                   \* "validate": DataManager.validate_query, "search":
                   \* DataManager.search_datasets, "info": DataManager.get_source_info,
                   \* "plugin search": ECBDataSource.search_datasets
    args,          \* arguments of the call in progress
    validation,    \* what validate_parameters did in this call
    plugin_calls,  \* invocations of the plugin's query_data in this call
    codes,         \* rate_types / inflation_types list the fetch loop iterates
    pos,           \* 1-based position of the loop in codes
    results,       \* the local dict `results` of the fetch loop
    requests,      \* session.get calls issued in this call, in order
    answers,       \* the last answer of the upstream to a request for each code
    plugin_result, \* value returned by the plugin's query_data
    ret,           \* value returned to the caller
    input,         \* argument of a pure function under check
    output         \* its result

vars == <<registry, instances, managers, register_calls, pc, caller, args, validation,
          plugin_calls, codes, pos, results, requests, answers, plugin_result,
          ret, input, output>>

callVars == <<pc, caller, args, validation, plugin_calls, codes, pos, results,
              requests, answers, plugin_result, ret>>

registryVars == <<registry, instances, managers, register_calls>>

pureVars == <<input, output>>

-----------------------------------------------------------------------------
(* Bounds of the model.                                                    *)

\* longest list of series codes a caller passes
MaxCodes == 2

\* register_source calls over the process lifetime
MaxRegistrations == 2

\* most observations of a series, and most entries of the date array, in a
\* structured payload handed to the parser
MaxObs == 2

\* most lines of a delimited text handed to the parser
MaxLines == 3

-----------------------------------------------------------------------------
(* Python values.                                                          *)

Raised(type) == [raised |-> type]

IsRaised(r) == "raised" \in DOMAIN r

NotRun == [notrun |-> TRUE]

\* list items that are not str: an int (hashable) and a list (unhashable)
IntItem == "<int 7>"

ListItem == "<list ['MRR']>"

IsStrItem(x) == x \notin {IntItem, ListItem}

IsHashable(x) == x # ListItem

\* the value found under the series-code key of the parameters
CodesAbsent == [k |-> "absent", items |-> <<>>]

CodesNone == [k |-> "none", items |-> <<>>]

CodesInt == [k |-> "int", items |-> <<>>]

CodesList(items) == [k |-> "list", items |-> items]

\* the value found under start_date / end_date
DateAbsent == [k |-> "absent", chars |-> <<>>]

DateNone == [k |-> "none", chars |-> <<>>]

DateInt == [k |-> "int", chars |-> <<>>]

DateStr(chars) == [k |-> "str", chars |-> chars]

\* bool(value) of a codes value: None and [] are falsy, the int 5 is truthy
CodesTruthy(c) ==
    CASE c.k = "list" -> Len(c.items) > 0
      [] c.k = "int" -> TRUE
      [] OTHER -> FALSE

\* bool(value) of a date value: None and "" are falsy, the int 20230101 truthy
DateTruthy(d) ==
    CASE d.k = "str" -> Len(d.chars) > 0
      [] d.k = "int" -> TRUE
      [] OTHER -> FALSE

-----------------------------------------------------------------------------
(* ECBDataSource: static tables.                                           *)

\* self._rate_mappings
rate_mappings ==
    [keys |-> <<"MRR", "DFR", "MLF">>,
     val |-> [c \in {"MRR", "DFR", "MLF"} |->
                CASE c = "MRR" -> "FM/B.U2.EUR.4F.KR.MRR_FR.LEV"
                  [] c = "DFR" -> "FM/B.U2.EUR.4F.KR.DFR.LEV"
                  [] c = "MLF" -> "FM/B.U2.EUR.4F.KR.MLFR_FR.LEV"]]

\* self._inflation_mappings
inflation_mappings ==
    [keys |-> <<"HICP", "CORE">>,
     val |-> [c \in {"HICP", "CORE"} |->
                CASE c = "HICP" -> "ICP/M.U2.N.000000.4.ANR"
                  [] c = "CORE" -> "ICP/M.U2.N.XEF000.4.ANR"]]

\* the keys of get_supported_datasets(), in order
get_supported_datasets ==
    <<"interest_rates", "inflation_rates", "money_market", "government_bonds",
      "exchange_rates", "monetary_aggregates">>

Range(s) == {s[i] : i \in DOMAIN s}

\* `x in d` for a dict d; the caller has checked that x is hashable
InDict(x, d) == x \in Range(d.keys)

-----------------------------------------------------------------------------
(* datetime.strptime(s, "%Y-%m-%d") for a str s, as _strptime computes it: *)
(* the regular expression                                                  *)
(*   (\d\d\d\d)-(1[0-2]|0[1-9]|[1-9])-(3[01]|[12]\d|0[1-9]|[1-9]| [1-9])   *)
(* must match a prefix, the match must cover the whole string, and the     *)
(* (year, month, day) found must be a date of the calendar.                *)

Digits == {"0", "1", "2", "3", "4", "5", "6", "7", "8", "9"}

DigitVal(c) ==
    CASE c = "0" -> 0 [] c = "1" -> 1 [] c = "2" -> 2 [] c = "3" -> 3
      [] c = "4" -> 4 [] c = "5" -> 5 [] c = "6" -> 6 [] c = "7" -> 7
      [] c = "8" -> 8 [] c = "9" -> 9

At(s, i) == IF i \in DOMAIN s THEN s[i] ELSE "<eos>"

\* length of the month field at position i: 2, 1, or 0 when nothing matches;
\* the two-digit alternatives come first, and the field must be followed by "-"
MonthLen(s, i) ==
    LET a == At(s, i)
        b == At(s, i + 1)
        two == \/ a = "1" /\ b \in {"0", "1", "2"}
               \/ a = "0" /\ b \in Digits \ {"0"}
    IN  IF two /\ At(s, i + 2) = "-" THEN 2
        ELSE IF a \in Digits \ {"0"} /\ b = "-" THEN 1
        ELSE 0

\* length of the day field at position i (the field ends the pattern, so the
\* first alternative that matches is taken), 0 when nothing matches
DayLen(s, i) ==
    LET a == At(s, i)
        b == At(s, i + 1)
    IN  IF a = "3" /\ b \in {"0", "1"} THEN 2
        ELSE IF a \in {"1", "2"} /\ b \in Digits THEN 2
        ELSE IF a = "0" /\ b \in Digits \ {"0"} THEN 2
        ELSE IF a \in Digits \ {"0"} THEN 1
        ELSE IF a = " " /\ b \in Digits \ {"0"} THEN 2
        ELSE 0

FieldVal(s, i, n) ==
    IF n = 1 THEN DigitVal(s[i])
    ELSE IF s[i] = " " THEN DigitVal(s[i + 1])
    ELSE 10 * DigitVal(s[i]) + DigitVal(s[i + 1])

IsLeap(y) == (y % 4 = 0 /\ y % 100 # 0) \/ y % 400 = 0

DaysInMonth(y, m) ==
    IF m = 2 THEN (IF IsLeap(y) THEN 29 ELSE 28)
    ELSE IF m \in {4, 6, 9, 11} THEN 30
    ELSE 31

\* TRUE when strptime returns, FALSE when it raises ValueError
StrptimeOk(s) ==
    /\ \A i \in 1..4 : At(s, i) \in Digits
    /\ At(s, 5) = "-"
    /\ LET ml == MonthLen(s, 6)
       IN  /\ ml > 0
           /\ LET dl == DayLen(s, 7 + ml)
              IN  /\ dl > 0
                  /\ Len(s) = 6 + ml + dl
                  /\ LET y == 1000 * DigitVal(s[1]) + 100 * DigitVal(s[2])
                                + 10 * DigitVal(s[3]) + DigitVal(s[4])
                         m == FieldVal(s, 6, ml)
                         d == FieldVal(s, 7 + ml, dl)
                     IN  /\ y >= 1
                         /\ d <= DaysInMonth(y, m)


-----------------------------------------------------------------------------
(* ECBDataSource.validate_parameters.                                      *)

NoErrors == [errors |-> <<>>, suggestions |-> <<>>]

\* a check that reports the whole list as soon as it is asked about
InvalidCodesWholeList(items, mapping) == items

\* the codes of the list that are outside the vocabulary, in list order
InvalidCodes(items, mapping) == SelectSeq(items, LAMBDA x : ~InDict(x, mapping))

\* one branch of the if/elif on dataset_type: the vocabulary check of the
\* list under the branch's key. `if rate_types:` skips None and []; the
\* comprehension raises TypeError on a value that is not iterable and on an
\* item that is not hashable.
VocabularyCheck(what, c, mapping) ==
    IF ~CodesTruthy(c) THEN NoErrors
    ELSE IF c.k = "int" THEN Raised("TypeError")
    ELSE IF \E i \in DOMAIN c.items : ~IsHashable(c.items[i]) THEN Raised("TypeError")
    ELSE IF InvalidCodes(c.items, mapping) # <<>>
         THEN [errors |-> << <<"Invalid ", what, " types: ",
                               InvalidCodes(c.items, mapping)>> >>,
               suggestions |-> << <<"Valid ", what, " types are: ", mapping.keys>> >>]
    ELSE NoErrors

\* the if/elif/else on dataset_type
DatasetCheck(dataset_type, parameters) ==
    IF dataset_type = "interest_rates"
    THEN VocabularyCheck("rate", parameters.codes, rate_mappings)
    ELSE IF dataset_type = "inflation_rates"
    THEN VocabularyCheck("inflation", parameters.codes, inflation_mappings)
    ELSE [errors |-> << <<"Dataset type '", dataset_type, "' not supported">> >>,
          suggestions |-> << <<"Supported datasets: ", get_supported_datasets>> >>]

\* one turn of the loop over ["start_date", "end_date"]: only ValueError is
\* caught, so strptime's TypeError for a value that is not a str propagates
DateCheck(date_param, d) ==
    IF d.k \in {"absent", "none"} THEN NoErrors
    ELSE IF d.k # "str" THEN Raised("TypeError")
    ELSE IF StrptimeOk(d.chars) THEN NoErrors
    ELSE [errors |-> << <<"Invalid ", date_param, " format: ", d.chars>> >>,
          suggestions |-> << <<date_param, " should be in YYYY-MM-DD format">> >>]

ValidationResult(errors, suggestions) ==
    [valid |-> Len(errors) = 0, errors |-> errors, suggestions |-> suggestions]

\* a validate_parameters that returns at the first violation it finds
validate_parameters_first_only(dataset_type, parameters) ==
    LET a == DatasetCheck(dataset_type, parameters)
        b == DateCheck("start_date", parameters.start_date)
        c == DateCheck("end_date", parameters.end_date)
    IN  IF IsRaised(a) THEN a
        ELSE IF a.errors # <<>> THEN ValidationResult(a.errors, a.suggestions)
        ELSE IF IsRaised(b) THEN b
        ELSE IF b.errors # <<>> THEN ValidationResult(b.errors, b.suggestions)
        ELSE IF IsRaised(c) THEN c
        ELSE ValidationResult(c.errors, c.suggestions)

validate_parameters(dataset_type, parameters) ==
    LET a == DatasetCheck(dataset_type, parameters)
        b == DateCheck("start_date", parameters.start_date)
        c == DateCheck("end_date", parameters.end_date)
    IN  IF IsRaised(a) THEN a
        ELSE IF IsRaised(b) THEN b
        ELSE IF IsRaised(c) THEN c
        ELSE ValidationResult(a.errors \o b.errors \o c.errors,
                              a.suggestions \o b.suggestions \o c.suggestions)

-----------------------------------------------------------------------------
(* Inputs.                                                                 *)

\* dataset types a caller may name: the catalog and one type outside it
DatasetTypes == Range(get_supported_datasets) \cup {"stock_prices"}

\* list items: two rate codes (invalid as inflation types), an inflation code
\* (invalid as a rate type), an int and a list
Items == {"MRR", "DFR", "HICP", IntItem, ListItem}

SeqsUpTo(S, n) == UNION {[1..k -> S] : k \in 0..n}

CodeValues ==
    {CodesAbsent, CodesNone, CodesInt} \cup {CodesList(s) : s \in SeqsUpTo(Items, MaxCodes)}

\* "2023-01-01"
DatePadded == <<"2", "0", "2", "3", "-", "0", "1", "-", "0", "1">>

\* "2023-02-01"
DateFebruary == <<"2", "0", "2", "3", "-", "0", "2", "-", "0", "1">>

\* "2023-3-15"
DateUnpadded == <<"2", "0", "2", "3", "-", "3", "-", "1", "5">>

\* "2023-02-30"
DateNoSuchDay == <<"2", "0", "2", "3", "-", "0", "2", "-", "3", "0">>

\* "01/02/2023"
DateSlashes == <<"0", "1", "/", "0", "2", "/", "2", "0", "2", "3">>

DateStrings == {DatePadded, DateUnpadded, DateNoSuchDay, DateSlashes, <<>>}

DateValues == {DateAbsent, DateNone, DateInt} \cup {DateStr(s) : s \in DateStrings}

Parameters == [codes : CodeValues, start_date : DateValues, end_date : DateValues]


-----------------------------------------------------------------------------
(* Observation values.                                                     *)

PyNone == [py |-> "None"]

\* an int, a list and a str where a parser expects its payload
PyInt == [py |-> "int"]

PyList == [py |-> "list"]

PyStr(chars) == [py |-> "str", chars |-> chars]

\* the float num / 10^places, in lowest terms so that equal floats are equal
\* values (2.50 and 2.5 are both PyFloat(25, 1))
RECURSIVE PyFloat(_, _)
PyFloat(num, places) ==
    IF places > 0 /\ num % 10 = 0 THEN PyFloat(num \div 10, places - 1)
    ELSE [py |-> "float", num |-> num, places |-> places]

EmptyDict == [keys |-> <<>>, val |-> <<>>]

Series(data_points) == [observations |-> data_points, count |-> Len(data_points)]

IsSeries(x) == DOMAIN x = {"observations", "count"}

IsError(x) == DOMAIN x = {"error"}

-----------------------------------------------------------------------------
(* ECBDataSource._parse_ecb_json_data.  The decoded body is a dict: a      *)
(* record that has the keys present in it.                                 *)

\* int(idx) for the observation keys of the model; "x" stands for every key
\* that int() rejects with ValueError
IntKeys == {"0", "1", "2", "3", "5", "-1"}

IntOf(k) ==
    CASE k = "0" -> 0 [] k = "1" -> 1 [] k = "2" -> 2 [] k = "3" -> 3 [] k = "5" -> 5
      [] k = "-1" -> -1

\* time_periods[n] of a Python list: a negative n counts from the end, and
\* n outside -len..len-1 raises IndexError
PyIndexOk(list, n) == -Len(list) <= n /\ n < Len(list)

PyIndex(list, n) == IF n >= 0 THEN list[n + 1] ELSE list[Len(list) + n + 1]

\* a lookup that takes a missing step of the path for an empty date array
TimePeriodsLenient(json_data) ==
    IF /\ "structure" \in DOMAIN json_data
       /\ json_data.structure.dimensions.observation # <<>>
       /\ "values" \in DOMAIN json_data.structure.dimensions.observation[1]
    THEN [values |-> json_data.structure.dimensions.observation[1].values]
    ELSE [values |-> <<>>]

\* json_data["structure"]["dimensions"]["observation"][0]["values"], or the
\* exception the first missing step raises
TimePeriods(json_data) ==
    IF "structure" \notin DOMAIN json_data THEN Raised("KeyError: 'structure'")
    ELSE IF "dimensions" \notin DOMAIN json_data.structure
         THEN Raised("KeyError: 'dimensions'")
    ELSE IF "observation" \notin DOMAIN json_data.structure.dimensions
         THEN Raised("KeyError: 'observation'")
    ELSE IF json_data.structure.dimensions.observation = <<>>
         THEN Raised("IndexError: list index out of range")
    ELSE IF "values" \notin DOMAIN json_data.structure.dimensions.observation[1]
         THEN Raised("KeyError: 'values'")
    ELSE [values |-> json_data.structure.dimensions.observation[1].values]

\* one turn of `for idx, obs in observations.items()`: the data point, or
\* the exception raised
DataPoint(idx, obs, time_periods) ==
    IF idx \notin IntKeys THEN Raised("ValueError: invalid literal for int()")
    ELSE IF ~PyIndexOk(time_periods, IntOf(idx))
         THEN Raised("IndexError: list index out of range")
    ELSE LET time_period == PyIndex(time_periods, IntOf(idx))
             value == IF obs # <<>> /\ obs[1] # PyNone THEN obs[1] ELSE PyNone
         IN  IF "id" \notin DOMAIN time_period THEN Raised("KeyError: 'id'")
             ELSE [date |-> time_period.id, value |-> value]

\* the observations of the first series of the first data set
FirstObservations(json_data) ==
    LET dataset == json_data.dataSets[1]
        series_data == IF "series" \in DOMAIN dataset THEN dataset.series ELSE EmptyDict
    IN  IF series_data.keys = <<>> THEN EmptyDict
        ELSE LET first == series_data.val[series_data.keys[1]]
             IN  IF "observations" \in DOMAIN first THEN first.observations
                 ELSE EmptyDict

\* a parser that takes the date of the k-th observation from the k-th entry
\* of the date array, whatever the observation's key
parse_ecb_json_data_by_position(json_data) ==
    IF json_data \in {PyNone, PyInt}
    THEN [error |-> <<"Failed to parse JSON data: ", "TypeError: argument is not iterable">>]
    ELSE IF "dataSets" \in DOMAIN json_data /\ json_data.dataSets # <<>>
    THEN LET observations == FirstObservations(json_data)
             tp == TimePeriods(json_data)
         IN  IF IsRaised(tp)
             THEN [error |-> <<"Failed to parse JSON data: ", tp.raised>>]
             ELSE IF \/ Len(observations.keys) > Len(tp.values)
                     \/ \E n \in DOMAIN tp.values : "id" \notin DOMAIN tp.values[n]
             THEN [error |-> <<"Failed to parse JSON data: ",
                               "IndexError: list index out of range">>]
             ELSE Series([n \in DOMAIN observations.keys |->
                            LET obs == observations.val[observations.keys[n]]
                            IN  [date |-> tp.values[n].id,
                                 value |-> IF obs # <<>> /\ obs[1] # PyNone
                                           THEN obs[1] ELSE PyNone]])
    ELSE Series(<<>>)

\* a parser that resolves the date array before it looks at dataSets
parse_ecb_json_data_structure_first(json_data) ==
    IF json_data \in {PyNone, PyInt}
    THEN [error |-> <<"Failed to parse JSON data: ", "TypeError: argument is not iterable">>]
    ELSE IF IsRaised(TimePeriods(json_data))
    THEN [error |-> <<"Failed to parse JSON data: ", TimePeriods(json_data).raised>>]
    ELSE parse_ecb_json_data_by_position(json_data)

\* `"dataSets" in json_data` raises TypeError on None and on an int; the
\* except branch of the parser turns every exception into the error variant
parse_ecb_json_data(json_data) ==
    IF json_data \in {PyNone, PyInt}
    THEN [error |-> <<"Failed to parse JSON data: ", "TypeError: argument is not iterable">>]
    ELSE IF "dataSets" \in DOMAIN json_data /\ json_data.dataSets # <<>>
    THEN LET observations == FirstObservations(json_data)
             tp == TimePeriods(json_data)
         IN  IF IsRaised(tp)
             THEN [error |-> <<"Failed to parse JSON data: ", tp.raised>>]
             ELSE LET points == [n \in DOMAIN observations.keys |->
                                   DataPoint(observations.keys[n],
                                             observations.val[observations.keys[n]],
                                             tp.values)]
                      bad == {n \in DOMAIN points : IsRaised(points[n])}
                  IN  IF bad = {} THEN Series(points)
                      ELSE LET first == CHOOSE n \in bad : \A m \in bad : n <= m
                           IN  [error |-> <<"Failed to parse JSON data: ",
                                            points[first].raised>>]
    ELSE Series(<<>>)


\* the parser of the legacy mcp_ecb_server.ECBDataServer: the observations
\* are those of the series "0:0:0:0:0:0:0", nothing when it is not there
LegacyObservations(json_data) ==
    LET dataset == json_data.dataSets[1]
        series_data == IF "series" \in DOMAIN dataset THEN dataset.series ELSE EmptyDict
    IN  IF "0:0:0:0:0:0:0" \notin Range(series_data.keys) THEN EmptyDict
        ELSE IF "observations" \in DOMAIN series_data.val["0:0:0:0:0:0:0"]
             THEN series_data.val["0:0:0:0:0:0:0"].observations
             ELSE EmptyDict

legacy_parse_ecb_json_data(json_data) ==
    IF json_data \in {PyNone, PyInt}
    THEN [error |-> <<"Failed to parse JSON data: ", "TypeError: argument is not iterable">>]
    ELSE IF "dataSets" \in DOMAIN json_data /\ json_data.dataSets # <<>>
    THEN LET observations == LegacyObservations(json_data)
             tp == TimePeriods(json_data)
         IN  IF IsRaised(tp)
             THEN [error |-> <<"Failed to parse JSON data: ", tp.raised>>]
             ELSE LET points == [n \in DOMAIN observations.keys |->
                                   DataPoint(observations.keys[n],
                                             observations.val[observations.keys[n]],
                                             tp.values)]
                      bad == {n \in DOMAIN points : IsRaised(points[n])}
                  IN  IF bad = {} THEN Series(points)
                      ELSE LET first == CHOOSE n \in bad : \A m \in bad : n <= m
                           IN  [error |-> <<"Failed to parse JSON data: ",
                                            points[first].raised>>]
    ELSE Series(<<>>)

-----------------------------------------------------------------------------
(* ECBDataSource._parse_ecb_csv_data.  The text is a PyStr of characters.  *)

Whitespace == {" ", "\n", "\r", "\t"}

RECURSIVE LStrip(_, _)
LStrip(s, drop) ==
    IF s # <<>> /\ Head(s) \in drop THEN LStrip(Tail(s), drop) ELSE s

RECURSIVE RStrip(_, _)
RStrip(s, drop) ==
    IF s # <<>> /\ s[Len(s)] \in drop THEN RStrip(SubSeq(s, 1, Len(s) - 1), drop) ELSE s

\* str.strip(): without an argument whitespace is dropped at both ends
Strip(s, drop) == RStrip(LStrip(s, drop), drop)

\* str.split(sep) for a one-character sep: always at least one part
RECURSIVE Split(_, _)
Split(s, sep) ==
    IF \E i \in DOMAIN s : s[i] = sep
    THEN LET i == CHOOSE i \in DOMAIN s : s[i] = sep /\ \A j \in 1..(i - 1) : s[j] # sep
         IN  <<SubSeq(s, 1, i - 1)>> \o Split(SubSeq(s, i + 1, Len(s)), sep)
    ELSE <<s>>

RECURSIVE DigitsVal(_)
DigitsVal(s) ==
    IF s = <<>> THEN 0 ELSE 10 * DigitsVal(SubSeq(s, 1, Len(s) - 1)) + DigitVal(s[Len(s)])

\* float(s) for the characters of the model (digits, sign, point, blanks and
\* other characters): blanks around are dropped, then an optional sign, digits
\* and at most one point with a digit on one side of it; anything else raises
\* ValueError
FloatOf(s) ==
    LET t == Strip(s, Whitespace)
        signed == t # <<>> /\ Head(t) \in {"+", "-"}
        body == IF signed THEN Tail(t) ELSE t
        parts == Split(body, ".")
        ip == parts[1]
        fp == IF Len(parts) = 2 THEN parts[2] ELSE <<>>
        ok == /\ Len(parts) <= 2
              /\ \A i \in DOMAIN ip : ip[i] \in Digits
              /\ \A i \in DOMAIN fp : fp[i] \in Digits
              /\ Len(ip) + Len(fp) > 0
    IN  IF ~ok THEN Raised("ValueError")
        ELSE LET mag == PyFloat(DigitsVal(ip \o fp), Len(fp))
             IN  IF signed /\ Head(t) = "-"
                 THEN [py |-> "float", num |-> 0 - mag.num, places |-> mag.places]
                 ELSE mag

\* a value rule that reads a missing or unreadable value as zero
CsvValueZero(field) ==
    IF field # <<>> /\ field # <<".">>
    THEN (IF IsRaised(FloatOf(field)) THEN PyFloat(0, 0) ELSE FloatOf(field))
    ELSE PyFloat(0, 0)

\* the value of one data line: float(parts[1]) unless the field is empty or
\* ".", and None when float raises ValueError
CsvValue(field) ==
    IF field # <<>> /\ field # <<".">>
    THEN (IF IsRaised(FloatOf(field)) THEN PyNone ELSE FloatOf(field))
    ELSE PyNone

\* a loop that keeps a line with one field as an observation without value
RECURSIVE CsvPointsKeepShort(_)
CsvPointsKeepShort(lines) ==
    IF lines = <<>> THEN <<>>
    ELSE LET parts == Split(Head(lines), ",")
         IN  <<[date |-> Strip(parts[1], {"\""}),
                value |-> IF Len(parts) >= 2 THEN CsvValue(parts[2]) ELSE PyNone]>>
             \o CsvPointsKeepShort(Tail(lines))

\* the data points of the data lines, in line order; a line with fewer than
\* two fields adds nothing
RECURSIVE CsvPoints(_)
CsvPoints(lines) ==
    IF lines = <<>> THEN <<>>
    ELSE LET parts == Split(Head(lines), ",")
         IN  (IF Len(parts) >= 2
              THEN <<[date |-> Strip(parts[1], {"\""}), value |-> CsvValue(parts[2])]>>
              ELSE <<>>) \o CsvPoints(Tail(lines))

\* a parser that takes the first line for data
parse_ecb_csv_data_keep_header(csv_text) ==
    IF "chars" \notin DOMAIN csv_text
    THEN [error |-> <<"Failed to parse CSV data: ", "AttributeError: no attribute 'strip'">>]
    ELSE LET lines == Split(Strip(csv_text.chars, Whitespace), "\n")
         IN  IF Len(lines) < 2 THEN Series(<<>>)
             ELSE Series(CsvPoints(lines))

\* a parser without the except branch
parse_ecb_csv_data_uncaught(csv_text) ==
    IF "chars" \notin DOMAIN csv_text THEN Raised("AttributeError")
    ELSE LET lines == Split(Strip(csv_text.chars, Whitespace), "\n")
         IN  IF Len(lines) < 2 THEN Series(<<>>)
             ELSE Series(CsvPoints(Tail(lines)))

\* csv_text.strip() raises AttributeError on a value that is not a str, which
\* the except branch turns into the error variant
parse_ecb_csv_data(csv_text) ==
    IF "chars" \notin DOMAIN csv_text
    THEN [error |-> <<"Failed to parse CSV data: ", "AttributeError: no attribute 'strip'">>]
    ELSE LET lines == Split(Strip(csv_text.chars, Whitespace), "\n")
         IN  IF Len(lines) < 2 THEN Series(<<>>)
             ELSE Series(CsvPoints(Tail(lines)))


-----------------------------------------------------------------------------
(* Insertion-ordered dicts.                                                *)

\* d[k] = v
DictSet(d, k, v) ==
    [keys |-> IF k \in Range(d.keys) THEN d.keys ELSE Append(d.keys, k),
     val |-> [x \in Range(d.keys) \cup {k} |-> IF x = k THEN v ELSE d.val[x]]]

DictKeys(d) == Range(d.keys)

-----------------------------------------------------------------------------
(* Payloads handed to the parsers.                                         *)

\* "2023-0m-01"
DateOfMonth(m) == <<"2", "0", "2", "3", "-", "0", ToString(m), "-", "0", "1">>

\* a date array of n entries
TimeValues(n) == [i \in 1..n |-> [id |-> DateOfMonth(i)]]

\* observation keys: indices into a date array of MaxObs entries, an index
\* beyond it, a negative one, and a key that is no integer
ObsKeys == {ToString(i) : i \in 0..(MaxObs - 1)} \cup {"5", "-1", "x"}

\* observation tuples: a value, a null, nothing
ObsTuples == {<<PyFloat(250, 2)>>, <<PyNone>>, <<>>}

\* sequences of distinct keys
KeySeqs == {ks \in SeqsUpTo(ObsKeys, MaxObs) : \A i, j \in DOMAIN ks : ks[i] = ks[j] => i = j}

\* the observations mappings: insertion order is the order of the keys
ObservationMaps ==
    UNION {{[keys |-> ks, val |-> f] : f \in [Range(ks) -> ObsTuples]} : ks \in KeySeqs}

\* the series key of the payloads, and a second one
SeriesKey == "0:0:0:0:0:0:0"

OtherSeriesKey == "1:0:0:0:0:0:0"

\* the entries of dataSets: without series, with no series in it, with one
\* series that has no observations key, with one series, with another series
\* before it
DataSetEntries ==
    {[action |-> "Information"],
     [series |-> EmptyDict],
     [series |-> [keys |-> <<SeriesKey>>,
                  val |-> [k \in {SeriesKey} |-> [attributes |-> <<>>]]]]}
    \cup {[series |-> [keys |-> <<SeriesKey>>,
                       val |-> [k \in {SeriesKey} |-> [observations |-> o]]]] :
             o \in ObservationMaps}
    \cup {[series |-> [keys |-> <<OtherSeriesKey, SeriesKey>>,
                       val |-> [k \in {SeriesKey, OtherSeriesKey} |->
                                  IF k = SeriesKey THEN [observations |-> o]
                                  ELSE [observations |->
                                          [keys |-> <<"0">>,
                                           val |-> [i \in {"0"} |-> <<PyFloat(999, 0)>>]]]]]] :
             o \in {m \in ObservationMaps : Len(m.keys) <= 1}}

\* the dataSets part of a payload: absent, empty, one entry
DataSetsParts == {<<>>, [dataSets |-> <<>>]} \cup {[dataSets |-> <<e>>] : e \in DataSetEntries}

\* the structure part: absent, without an observation dimension, with a date
\* array of 0..MaxObs entries, with an entry that has no id
StructureParts ==
    {<<>>, [structure |-> [dimensions |-> [observation |-> <<>>]]]}
    \cup {[structure |-> [dimensions |-> [observation |-> <<[values |-> TimeValues(n)]>>]]] :
             n \in 0..MaxObs}
    \cup {[structure |-> [dimensions |-> [observation |-> <<[values |-> <<[name |-> "Jan"]>>]>>]]]}

\* keys the parser does not look at
ExtraParts == {<<>>, [invalid |-> "structure"]}

\* what response.json() can hand to the parser besides a mapping: None, an
\* int, a list
OtherPayloads == {PyNone, PyInt, PyList}

\* lines of a delimited text
LineHeader == <<"D", ",", "V">>

LineOneColumn == <<"x">>

LineBlank == <<>>

\* "a",2.50
LineQuoted == <<"\"", "a", "\"", ",", "2", ".", "5", "0">>

\* b,.
LineSentinel == <<"b", ",", ".">>

\* c,
LineEmptyValue == <<"c", ",">>

\* d,x
LineNotNumber == <<"d", ",", "x">>

\* e,-1,z
LineThreeFields == <<"e", ",", "-", "1", ",", "z">>

CsvLines ==
    {LineHeader, LineOneColumn, LineBlank, LineQuoted, LineSentinel, LineEmptyValue,
     LineNotNumber, LineThreeFields}

\* "\n".join(lines)
RECURSIVE JoinLines(_)
JoinLines(lines) ==
    IF lines = <<>> THEN <<>>
    ELSE IF Len(lines) = 1 THEN lines[1]
    ELSE lines[1] \o <<"\n">> \o JoinLines(Tail(lines))

\* the texts: up to MaxLines lines, with or without a newline before and after
CsvPayloads ==
    {PyStr(a \o JoinLines(ls) \o b) :
        ls \in SeqsUpTo(CsvLines, MaxLines), a \in {<<>>, <<"\n">>}, b \in {<<>>, <<"\n">>}}
    \cup {PyNone}

-----------------------------------------------------------------------------
(* The upstream API: what session.get can do.                              *)

\* a decodable body of the expected shape, with two observations
JsonGood ==
    [dataSets |-> <<[series |-> [keys |-> <<"0:0:0:0:0:0:0">>,
                                 val |-> [k \in {"0:0:0:0:0:0:0"} |->
                                    [observations |->
                                       [keys |-> <<"0", "1">>,
                                        val |-> [i \in {"0", "1"} |->
                                                   IF i = "0" THEN <<PyFloat(250, 2)>>
                                                   ELSE <<PyNone>>]]]]]]>>,
     structure |-> [dimensions |-> [observation |->
                      <<[values |-> <<[id |-> DatePadded], [id |-> DateFebruary]>>]>>]]]

\* a decodable body that lacks the structure part
JsonNoStructure ==
    [dataSets |-> <<[series |-> EmptyDict]>>]

JsonBodies == {JsonGood, JsonNoStructure}

\* the text  D,V\n"2023-01-01",2.50\n"2023-02-01",.
CsvGood ==
    <<"D", ",", "V", "\n",
      "\"", "2", "0", "2", "3", "-", "0", "1", "-", "0", "1", "\"", ",", "2", ".", "5", "0", "\n",
      "\"", "2", "0", "2", "3", "-", "0", "2", "-", "0", "1", "\"", ",", ".">>

CsvTexts == {PyStr(CsvGood)}

ErrorStatuses == {404, 503}

\* session.get raising (str(e) is the exception's text)
TransportFailure == [exc |-> "ConnectionError: upstream unreachable"]

\* answers to a format=jsondata request: a transport failure, a status other
\* than 200, a 200 whose body decodes, a 200 whose body json() rejects with
\* JSONDecodeError
FirstResponses ==
    {TransportFailure}
    \cup {[status_code |-> st] : st \in ErrorStatuses}
    \cup {[status_code |-> 200, json |-> j] : j \in JsonBodies}
    \cup {[status_code |-> 200, text |-> t] : t \in CsvTexts}

\* answers to the format=csvdata request
RetryResponses ==
    {TransportFailure}
    \cup {[status_code |-> st] : st \in ErrorStatuses}
    \cup {[status_code |-> 200, text |-> t] : t \in CsvTexts}

IsTransportFailure(resp) == "exc" \in DOMAIN resp

\* response.json() raises json.JSONDecodeError
JsonDecodeFails(resp) == "json" \notin DOMAIN resp

-----------------------------------------------------------------------------
(* ECBDataSource.query_data, _get_interest_rates, _get_inflation_rates.    *)

BASE_URL == "https://data-api.ecb.europa.eu/service/data"

\* the mapping, the default list and the message label of each fetcher
Fetcher(dataset_type) ==
    IF dataset_type = "interest_rates"
    THEN [mapping |-> rate_mappings, default |-> <<"MRR", "DFR", "MLF">>,
          label |-> "Successfully fetched ECB rates: "]
    ELSE [mapping |-> inflation_mappings, default |-> <<"HICP">>,
          label |-> "Successfully fetched ECB inflation data: "]

\* a lookup whose default is the empty list, as in validate_parameters
ResolveCodesEmptyDefault(dataset_type, parameters) ==
    IF parameters.codes.k = "absent" THEN CodesList(<<>>)
    ELSE parameters.codes

\* parameters.get(key, default): the default only when the key is absent
ResolveCodes(dataset_type, parameters) ==
    IF parameters.codes.k = "absent" THEN CodesList(Fetcher(dataset_type).default)
    ELSE parameters.codes

\* a retry that is sent without the bounds of the first request
RequestParamsRetryBare(format, parameters) ==
    IF format = "csvdata" THEN [format |-> format]
    ELSE [format |-> format]
         @@ (IF DateTruthy(parameters.start_date)
             THEN [startPeriod |-> parameters.start_date] ELSE <<>>)
         @@ (IF DateTruthy(parameters.end_date)
             THEN [endPeriod |-> parameters.end_date] ELSE <<>>)

\* params of a request: format, and a bound for each date that is truthy
RequestParams(format, parameters) ==
    [format |-> format]
    @@ (IF DateTruthy(parameters.start_date)
        THEN [startPeriod |-> parameters.start_date] ELSE <<>>)
    @@ (IF DateTruthy(parameters.end_date)
        THEN [endPeriod |-> parameters.end_date] ELSE <<>>)

Request(dataset_type, code, format, parameters) ==
    [code |-> code,
     url |-> <<BASE_URL, "/", Fetcher(dataset_type).mapping.val[code]>>,
     params |-> RequestParams(format, parameters)]

\* the except branch of query_data
QueryFailed(dataset_type, error_msg) ==
    [success |-> FALSE, error |-> <<error_msg>>,
     message |-> <<"Failed to query ECB data for ", dataset_type>>]

\* an else branch that answers an unimplemented type with an empty success
NotImplementedAsSuccess(dataset_type) ==
    [success |-> TRUE, data |-> EmptyDict,
     message |-> <<"Dataset type '", dataset_type, "' not yet implemented">>]

\* the else branch of query_data
NotImplemented(dataset_type) ==
    [success |-> FALSE,
     error |-> <<"Dataset type '", dataset_type, "' not yet implemented">>,
     message |-> <<"Only interest_rates and inflation_rates datasets are currently supported">>]

\* a fetcher that reports success only when no slot holds an error
FetchReturnAllOrNothing(dataset_type, items, res) ==
    IF \E i \in DOMAIN items : ~IsStrItem(items[i])
    THEN QueryFailed(dataset_type, "TypeError: sequence item: expected str instance")
    ELSE IF \E k \in DictKeys(res) : IsError(res.val[k])
    THEN QueryFailed(dataset_type, "some series failed")
    ELSE [success |-> TRUE, data |-> res,
          message |-> <<Fetcher(dataset_type).label, items>>]

\* the return statement of a fetcher; ', '.join raises TypeError on an item
\* that is not a str, which query_data's except branch turns into a failure
FetchReturn(dataset_type, items, res) ==
    IF \E i \in DOMAIN items : ~IsStrItem(items[i])
    THEN QueryFailed(dataset_type, "TypeError: sequence item: expected str instance")
    ELSE [success |-> TRUE, data |-> res,
          message |-> <<Fetcher(dataset_type).label, items>>]

\* the loop from position i up to its next session.get: the position of the
\* next code that is in the mapping, Len(items) + 1 when there is none, and 0
\* when `in` raises TypeError on an unhashable item before that
RECURSIVE NextRequest(_, _, _)
NextRequest(items, i, mapping) ==
    IF i > Len(items) THEN i
    ELSE IF ~IsHashable(items[i]) THEN 0
    ELSE IF InDict(items[i], mapping) THEN i
    ELSE NextRequest(items, i + 1, mapping)

\* a first-request handler that swallows a transport failure into an empty
\* Series
FirstSlotSwallowsFailure(code, resp) ==
    IF IsTransportFailure(resp) THEN Series(<<>>)
    ELSE IF resp.status_code # 200
    THEN [error |-> <<"Failed to fetch ", code, ": HTTP ", ToString(resp.status_code)>>]
    ELSE parse_ecb_json_data(resp.json)

\* the slot recorded for a code after the answer to its first request, when
\* no retry follows
FirstSlot(code, resp) ==
    IF IsTransportFailure(resp)
    THEN [error |-> <<"Request failed for ", code, ": ", resp.exc>>]
    ELSE IF resp.status_code # 200
    THEN [error |-> <<"Failed to fetch ", code, ": HTTP ", ToString(resp.status_code)>>]
    ELSE parse_ecb_json_data(resp.json)

\* the slot recorded for a code after the answer to its csvdata request
RetrySlot(code, resp) ==
    IF IsTransportFailure(resp)
    THEN [error |-> <<"Request failed for ", code, ": ", resp.exc>>]
    ELSE IF resp.status_code = 200
    THEN parse_ecb_csv_data(resp.text)
    ELSE [error |-> <<"CSV fetch failed: HTTP ", ToString(resp.status_code)>>]

\* a loop that also asks again when the body decodes and the structured
\* parser returns its error variant
NeedsRetryOnParseError(resp) ==
    /\ ~IsTransportFailure(resp)
    /\ resp.status_code = 200
    /\ \/ JsonDecodeFails(resp)
       \/ IsError(parse_ecb_json_data(resp.json))

\* whether the answer to the first request makes the code ask again
NeedsRetry(resp) ==
    /\ ~IsTransportFailure(resp)
    /\ resp.status_code = 200
    /\ JsonDecodeFails(resp)


-----------------------------------------------------------------------------
(* ECBDataSource.get_supported_datasets with its descriptions, and         *)
(* ECBDataSource.search_datasets.  Text the code looks inside is a tuple   *)
(* of characters.                                                          *)

\* the characters of a dataset id
IdChars(id) ==
    CASE id = "interest_rates" ->
             <<"i", "n", "t", "e", "r", "e", "s", "t", "_", "r", "a", "t", "e", "s">>
      [] id = "inflation_rates" ->
             <<"i", "n", "f", "l", "a", "t", "i", "o", "n", "_", "r", "a", "t", "e",
               "s">>
      [] id = "money_market" ->
             <<"m", "o", "n", "e", "y", "_", "m", "a", "r", "k", "e", "t">>
      [] id = "government_bonds" ->
             <<"g", "o", "v", "e", "r", "n", "m", "e", "n", "t", "_", "b", "o", "n",
               "d", "s">>
      [] id = "exchange_rates" ->
             <<"e", "x", "c", "h", "a", "n", "g", "e", "_", "r", "a", "t", "e", "s">>
      [] id = "monetary_aggregates" ->
             <<"m", "o", "n", "e", "t", "a", "r", "y", "_", "a", "g", "g", "r", "e",
               "g", "a", "t", "e", "s">>

\* the description get_supported_datasets() gives for a dataset id
Description(id) ==
    CASE id = "interest_rates" ->
             <<"E", "C", "B", " ", "K", "e", "y", " ", "I", "n", "t", "e", "r", "e",
               "s", "t", " ", "R", "a", "t", "e", "s", " ", "(", "M", "R", "R", ",",
               " ", "D", "F", "R", ",", " ", "M", "L", "F", ")">>
      [] id = "inflation_rates" ->
             <<"H", "a", "r", "m", "o", "n", "i", "s", "e", "d", " ", "I", "n", "d",
               "e", "x", " ", "o", "f", " ", "C", "o", "n", "s", "u", "m", "e", "r",
               " ", "P", "r", "i", "c", "e", "s", " ", "(", "H", "I", "C", "P", ")">>
      [] id = "money_market" ->
             <<"M", "o", "n", "e", "y", " ", "M", "a", "r", "k", "e", "t", " ", "R",
               "a", "t", "e", "s">>
      [] id = "government_bonds" ->
             <<"G", "o", "v", "e", "r", "n", "m", "e", "n", "t", " ", "B", "o", "n",
               "d", " ", "Y", "i", "e", "l", "d", "s">>
      [] id = "exchange_rates" ->
             <<"E", "u", "r", "o", " ", "E", "x", "c", "h", "a", "n", "g", "e", " ",
               "R", "a", "t", "e", "s">>
      [] id = "monetary_aggregates" ->
             <<"M", "o", "n", "e", "t", "a", "r", "y", " ", "A", "g", "g", "r", "e",
               "g", "a", "t", "e", "s">>

\* get_supported_datasets() as a dict: id -> description
supported_datasets ==
    [keys |-> get_supported_datasets,
     val |-> [id \in Range(get_supported_datasets) |-> Description(id)]]

\* str.lower() of one character
LowerChar(c) ==
    CASE c = "A" -> "a"
      [] c = "B" -> "b"
      [] c = "C" -> "c"
      [] c = "D" -> "d"
      [] c = "E" -> "e"
      [] c = "F" -> "f"
      [] c = "G" -> "g"
      [] c = "H" -> "h"
      [] c = "I" -> "i"
      [] c = "J" -> "j"
      [] c = "K" -> "k"
      [] c = "L" -> "l"
      [] c = "M" -> "m"
      [] c = "N" -> "n"
      [] c = "O" -> "o"
      [] c = "P" -> "p"
      [] c = "Q" -> "q"
      [] c = "R" -> "r"
      [] c = "S" -> "s"
      [] c = "T" -> "t"
      [] c = "U" -> "u"
      [] c = "V" -> "v"
      [] c = "W" -> "w"
      [] c = "X" -> "x"
      [] c = "Y" -> "y"
      [] c = "Z" -> "z"
      [] OTHER -> c

\* str.lower()
Lower(text) == [i \in DOMAIN text |-> LowerChar(text[i])]

\* `part in text` for two str
Contains(text, part) ==
    \E i \in 0..(Len(text) - Len(part)) : SubSeq(text, i + 1, i + Len(part)) = part

\* a filter that compares the query as it was typed
MatchesCaseSensitive(id, query) ==
    Contains(IdChars(id), query) \/ Contains(Description(id), query)

\* the condition of the comprehension: the lowered query is in the lowered id
\* or in the lowered description
Matches(id, query) ==
    \/ Contains(Lower(IdChars(id)), Lower(query))
    \/ Contains(Lower(Description(id)), Lower(query))

\* ECBDataSource.search_datasets
search_datasets(query) ==
    LET matching == SelectSeq(get_supported_datasets, LAMBDA id : Matches(id, query))
    IN  [success |-> TRUE,
         datasets |-> [keys |-> matching,
                       val |-> [id \in Range(matching) |-> Description(id)]],
         message |-> <<"Found ", ToString(Len(matching)), " ECB datasets matching: ",
                       query>>]

\* ECBDataSource.get_name and get_description
get_name == "European Central Bank Statistical Data Warehouse"

get_description ==
    "Official statistical data from the European Central Bank, including interest rates, monetary policy indicators, and economic statistics."

-----------------------------------------------------------------------------
(* DataSourceRegistry and DataManager.                                     *)

\* ids a caller may register or ask for; "imf" is never registered
SourceIds == {"ecb", "fred"}

QueryIds == SourceIds \cup {"imf"}

\* a registry that keeps the source an id was first registered with
register_source_keep_first(reg, source_id, source) ==
    IF source_id \in DictKeys(reg) THEN reg ELSE DictSet(reg, source_id, source)

\* DataSourceRegistry.register_source: self._sources[source_id] = source
register_source(reg, source_id, source) == DictSet(reg, source_id, source)

\* DataSourceRegistry.get_source: the instance, or 0 for None
get_source(reg, source_id) ==
    IF source_id \in DictKeys(reg) THEN reg.val[source_id] ELSE 0

\* a listing that names the default source whatever is registered
get_available_sources_default(reg) == <<"ecb">>

\* DataSourceRegistry.list_sources / DataManager.get_available_sources: its keys
get_available_sources(reg) == reg.keys

\* DataSourceRegistry.list_sources: id -> name of the source
list_sources(reg) ==
    [keys |-> reg.keys, val |-> [id \in DictKeys(reg) |-> get_name]]

\* DataSourceRegistry.get_all_datasets: id -> datasets of the source
get_all_datasets(reg) ==
    [keys |-> reg.keys, val |-> [id \in DictKeys(reg) |-> supported_datasets]]

\* the envelope of the source-not-found branch
SourceNotFound(reg, source_id) ==
    [success |-> FALSE,
     error |-> <<"Data source '", source_id, "' not found">>,
     message |-> <<"Available sources: ", get_available_sources(reg)>>]

\* a validation-failed envelope that carries the errors but no error key
ValidationFailedWithoutError(v) ==
    [success |-> FALSE,
     validation_errors |-> v.errors,
     suggestions |-> v.suggestions,
     message |-> <<"Please check your parameters and try again">>]

\* the envelope of the validation-failed branch
ValidationFailed(v) ==
    [success |-> FALSE,
     error |-> <<"Parameter validation failed">>,
     validation_errors |-> v.errors,
     suggestions |-> v.suggestions,
     message |-> <<"Please check your parameters and try again">>]

\* the record count logged after the query: the observations of the slots
\* that hold a Series, None when the result is not a success
RECURSIVE SumObservations(_, _)
SumObservations(d, i) ==
    IF i > Len(d.keys) THEN 0
    ELSE (IF "observations" \in DOMAIN d.val[d.keys[i]]
          THEN Len(d.val[d.keys[i]].observations) ELSE 0) + SumObservations(d, i + 1)

record_count(result) ==
    IF result.success /\ "data" \in DOMAIN result
    THEN [count |-> SumObservations(result.data, 1)]
    ELSE PyNone

\* a manager that returns the counted summary in place of the result
ManagerReturnSummary(result) ==
    IF result.success
    THEN [success |-> TRUE, data |-> EmptyDict, message |-> <<record_count(result)>>]
    ELSE result

\* what query_data returns after the plugin's query_data: the result itself;
\* the count and the log line are made from it and it is not touched
ManagerReturn(result) == result

\* a dry run that checks the parameters without looking the source up
validate_query_skipping_lookup(reg, source_id, dataset_type, parameters) ==
    validate_parameters(dataset_type, parameters)

\* DataManager.validate_query: the not-found result, or what the source's
\* validate_parameters returns (or raises)
validate_query(reg, source_id, dataset_type, parameters) ==
    IF get_source(reg, source_id) = 0
    THEN [valid |-> FALSE,
          errors |-> << <<"Data source '", source_id, "' not found">> >>,
          suggestions |-> << <<"Available sources: ", get_available_sources(reg)>> >>]
    ELSE validate_parameters(dataset_type, parameters)

\* the source_id argument left out: None
NoSourceId == "<None>"

\* `if source_id:` is false for None and for ""
SourceIdTruthy(source_id) == source_id \notin {NoSourceId, ""}

\* the else branch of DataManager.search_datasets: every source of the
\* registry is searched, in the order of the registry, and the datasets of
\* each result that has success are kept under the id of the source
SearchAll(reg, query) ==
    LET found == SelectSeq(reg.keys, LAMBDA sid : search_datasets(query).success)
    IN  [success |-> TRUE,
         results_by_source |->
            [keys |-> found,
             val |-> [sid \in Range(found) |-> search_datasets(query).datasets]],
         message |-> <<"Searched ", ToString(Len(reg.keys)), " data sources for: ",
                       query>>]

\* DataManager.search_datasets
manager_search_datasets(reg, query, source_id) ==
    IF SourceIdTruthy(source_id)
    THEN (IF get_source(reg, source_id) = 0
          THEN [success |-> FALSE,
                error |-> <<"Data source '", source_id, "' not found">>]
          ELSE search_datasets(query))
    ELSE SearchAll(reg, query)

\* DataManager.get_source_info
get_source_info(reg, source_id) ==
    IF get_source(reg, source_id) = 0
    THEN [success |-> FALSE, error |-> <<"Data source '", source_id, "' not found">>]
    ELSE [success |-> TRUE,
          source_id |-> source_id,
          name |-> get_name,
          description |-> get_description,
          supported_datasets |-> supported_datasets]

-----------------------------------------------------------------------------
(* The state machine.  The program is single-threaded and synchronous: one *)
(* call is in progress at a time, and it is at rest only inside            *)
(* session.get, waiting for the answer of the upstream API.                *)

\* date values the callers of query_data pass
CallDateValues ==
    {DateAbsent, DateInt, DateStr(DatePadded), DateStr(DateSlashes)}

CallParameters ==
    [codes : CodeValues, start_date : CallDateValues, end_date : CallDateValues]

\* parameters of a direct call of the plugin, which no validation precedes:
\* a date may also be the empty str
PluginCallParameters ==
    [codes : CodeValues,
     start_date : CallDateValues \cup {DateStr(<<>>)},
     end_date : CallDateValues \cup {DateStr(<<>>)}]

NoArgs == [source_id |-> "", dataset_type |-> "", parameters |-> NotRun]

AtRest == pc = "idle"

\* dataset types the callers of query_data name: the two with a fetcher, one
\* of the catalog without, and one outside the catalog
CallDatasetTypes == {"interest_rates", "inflation_rates", "money_market", "stock_prices"}

\* search terms: "rate", "RATES", "hicp", "Euro", "y", "", "bonds2"
Queries ==
    {<<"r", "a", "t", "e">>, <<"R", "A", "T", "E", "S">>, <<"h", "i", "c", "p">>,
     <<"E", "u", "r", "o">>, <<"y">>, <<>>, <<"b", "o", "n", "d", "s", "2">>}

\* the values of the call variables between calls
NoCall ==
    /\ pc = "idle"
    /\ caller = "none"
    /\ args = NoArgs
    /\ validation = "not run"
    /\ plugin_calls = 0
    /\ codes = <<>>
    /\ pos = 0
    /\ results = EmptyDict
    /\ requests = <<>>
    /\ answers = EmptyDict
    /\ plugin_result = NotRun
    /\ ret = NotRun

Init ==
    /\ registry = EmptyDict
    /\ instances = 0
    /\ managers = 0
    /\ register_calls = <<>>
    /\ NoCall
    /\ input = NotRun
    /\ output = NotRun

\* DataSourceRegistry.register_source with a newly constructed ECBDataSource
RegisterSource ==
    /\ AtRest
    /\ instances < MaxRegistrations
    /\ \E source_id \in SourceIds :
          /\ registry' = register_source(registry, source_id, instances + 1)
          /\ register_calls' = Append(register_calls, [source_id |-> source_id,
                                                       source |-> instances + 1])
    /\ instances' = instances + 1
    /\ UNCHANGED <<managers, callVars, pureVars>>

\* DataManager.__init__ and _register_default_sources
DataManagerInit ==
    /\ AtRest
    /\ instances < MaxRegistrations
    /\ registry' = register_source(registry, "ecb", instances + 1)
    /\ register_calls' = Append(register_calls, [source_id |-> "ecb",
                                                 source |-> instances + 1])
    /\ instances' = instances + 1
    /\ managers' = managers + 1
    /\ UNCHANGED <<callVars, pureVars>>

\* app.get_processors: ECBDataServer() constructs a DataManager, then
\* DataManager() constructs another; each __init__ constructs an ECBDataSource
\* and registers it as "ecb".  st.cache_resource runs it once per process.
AppGetProcessors ==
    /\ AtRest
    /\ managers = 0
    /\ instances = 0
    /\ registry' = register_source(register_source(registry, "ecb", 1), "ecb", 2)
    /\ register_calls' = register_calls \o <<[source_id |-> "ecb", source |-> 1],
                                             [source_id |-> "ecb", source |-> 2]>>
    /\ instances' = 2
    /\ managers' = 2
    /\ UNCHANGED <<callVars, pureVars>>

\* the call ends without (further) requests
Finish(who, result, res, reqs) ==
    /\ pc' = "returned"
    /\ pos' = 0
    /\ results' = res
    /\ requests' = reqs
    /\ plugin_result' = result
    /\ ret' = IF who = "manager" THEN ManagerReturn(result) ELSE result

\* the fetch loop runs on from position `from` with the slots `res`: up to its
\* next session.get, or to the end of the call
ContinueLoop(who, dataset_type, parameters, items, from, res, reqs) ==
    LET n == NextRequest(items, from, Fetcher(dataset_type).mapping)
    IN  IF n = 0
        THEN Finish(who, QueryFailed(dataset_type, "TypeError: unhashable type: 'list'"),
                    res, reqs)
        ELSE IF n > Len(items)
        THEN Finish(who, FetchReturn(dataset_type, items, res), res, reqs)
        ELSE /\ pc' = "fetch"
             /\ pos' = n
             /\ results' = res
             /\ requests' = Append(reqs, Request(dataset_type, items[n], "jsondata",
                                                 parameters))
             /\ plugin_result' = NotRun
             /\ ret' = NotRun

\* ECBDataSource.query_data is entered
EnterPlugin(who, dataset_type, parameters) ==
    /\ plugin_calls' = 1
    /\ IF dataset_type \in {"interest_rates", "inflation_rates"}
       THEN LET c == ResolveCodes(dataset_type, parameters)
            IN  IF c.k # "list"
                THEN /\ codes' = <<>>
                     /\ Finish(who, QueryFailed(dataset_type,
                                                "TypeError: object is not iterable"),
                               EmptyDict, <<>>)
                ELSE /\ codes' = c.items
                     /\ ContinueLoop(who, dataset_type, parameters, c.items, 1,
                                     EmptyDict, <<>>)
       ELSE /\ codes' = <<>>
            /\ Finish(who, NotImplemented(dataset_type), EmptyDict, <<>>)

\* the call ends before the plugin's query_data
ShortCircuit(how, value, state) ==
    /\ validation' = how
    /\ plugin_calls' = 0
    /\ codes' = <<>>
    /\ pos' = 0
    /\ results' = EmptyDict
    /\ requests' = <<>>
    /\ plugin_result' = NotRun
    /\ ret' = value
    /\ pc' = state

\* a query_data that goes on to the plugin when validation found errors
ManagerPathIgnoringErrors(reg, source_id, dataset_type, parameters) ==
    IF get_source(reg, source_id) = 0 THEN "not found"
    ELSE IF IsRaised(validate_parameters(dataset_type, parameters)) THEN "raised"
    ELSE "query"

\* the way DataManager.query_data takes: the source is looked up, then the
\* parameters are validated, then the plugin is queried
ManagerPath(reg, source_id, dataset_type, parameters) ==
    IF get_source(reg, source_id) = 0 THEN "not found"
    ELSE IF IsRaised(validate_parameters(dataset_type, parameters)) THEN "raised"
    ELSE IF ~validate_parameters(dataset_type, parameters).valid THEN "invalid"
    ELSE "query"

\* DataManager.query_data is called
ManagerQueryData ==
    /\ AtRest
    /\ managers >= 1
    /\ \E source_id \in QueryIds, dataset_type \in CallDatasetTypes, parameters \in CallParameters :
          /\ caller' = "manager"
          /\ args' = [source_id |-> source_id, dataset_type |-> dataset_type,
                      parameters |-> parameters]
          /\ answers' = EmptyDict
          /\ LET path == ManagerPath(registry, source_id, dataset_type, parameters)
                 v == validate_parameters(dataset_type, parameters)
             IN  CASE path = "not found" ->
                        ShortCircuit("not run", SourceNotFound(registry, source_id),
                                     "returned")
                   [] path = "raised" -> ShortCircuit("raised", v, "raised")
                   [] path = "invalid" ->
                        ShortCircuit("invalid", ValidationFailed(v), "returned")
                   [] path = "query" ->
                        /\ validation' = IF v.valid THEN "valid" ELSE "invalid"
                        /\ EnterPlugin("manager", dataset_type, parameters)
    /\ UNCHANGED <<registryVars, pureVars>>

\* DataManager.validate_query is called
ManagerValidateQuery ==
    /\ AtRest
    /\ managers >= 1
    /\ \E source_id \in QueryIds, dataset_type \in CallDatasetTypes, parameters \in CallParameters :
          /\ caller' = "validate"
          /\ args' = [source_id |-> source_id, dataset_type |-> dataset_type,
                      parameters |-> parameters]
          /\ answers' = EmptyDict
          /\ LET v == validate_query(registry, source_id, dataset_type, parameters)
             IN  IF IsRaised(v) THEN ShortCircuit("raised", v, "raised")
                 ELSE IF get_source(registry, source_id) = 0
                 THEN ShortCircuit("not run", v, "returned")
                 ELSE ShortCircuit(IF v.valid THEN "valid" ELSE "invalid", v, "returned")
    /\ UNCHANGED <<registryVars, pureVars>>

\* DataManager.search_datasets is called
ManagerSearchDatasets ==
    /\ AtRest
    /\ managers >= 1
    /\ \E query \in Queries, source_id \in QueryIds \cup {NoSourceId, ""} :
          /\ caller' = "search"
          /\ args' = [source_id |-> source_id, dataset_type |-> "",
                      parameters |-> [query |-> query]]
          /\ answers' = EmptyDict
          /\ ShortCircuit("not run", manager_search_datasets(registry, query, source_id),
                          "returned")
    /\ UNCHANGED <<registryVars, pureVars>>

\* DataManager.get_source_info is called
ManagerGetSourceInfo ==
    /\ AtRest
    /\ managers >= 1
    /\ \E source_id \in QueryIds :
          /\ caller' = "info"
          /\ args' = [source_id |-> source_id, dataset_type |-> "",
                      parameters |-> NotRun]
          /\ answers' = EmptyDict
          /\ ShortCircuit("not run", get_source_info(registry, source_id), "returned")
    /\ UNCHANGED <<registryVars, pureVars>>

\* ECBDataSource.search_datasets is called on a plugin directly
PluginSearchDatasets ==
    /\ AtRest
    /\ instances >= 1
    /\ \E query \in Queries :
          /\ caller' = "plugin search"
          /\ args' = [source_id |-> "", dataset_type |-> "",
                      parameters |-> [query |-> query]]
          /\ answers' = EmptyDict
          /\ ShortCircuit("not run", search_datasets(query), "returned")
    /\ UNCHANGED <<registryVars, pureVars>>

\* ECBDataSource.query_data is called on a plugin directly
PluginQueryData ==
    /\ AtRest
    /\ instances >= 1
    /\ \E dataset_type \in CallDatasetTypes, parameters \in PluginCallParameters :
          /\ caller' = "plugin"
          /\ args' = [source_id |-> "", dataset_type |-> dataset_type,
                      parameters |-> parameters]
          /\ answers' = EmptyDict
          /\ validation' = "not run"
          /\ EnterPlugin("plugin", dataset_type, parameters)
    /\ UNCHANGED <<registryVars, pureVars>>

\* the upstream answers the format=jsondata request of codes[pos]
FirstResponse ==
    /\ pc = "fetch"
    /\ \E resp \in FirstResponses :
          /\ answers' = DictSet(answers, codes[pos], resp)
          /\ IF NeedsRetry(resp)
             THEN /\ pc' = "retry"
                  /\ requests' = Append(requests,
                                        Request(args.dataset_type, codes[pos], "csvdata",
                                                args.parameters))
                  /\ UNCHANGED <<pos, results, plugin_result, ret>>
             ELSE ContinueLoop(caller, args.dataset_type, args.parameters, codes, pos + 1,
                               DictSet(results, codes[pos], FirstSlot(codes[pos], resp)),
                               requests)
    /\ UNCHANGED <<caller, args, validation, plugin_calls, codes, registryVars, pureVars>>

\* a retry whose non-200 answer records nothing for the code, as in the
\* legacy server
RetryResponseNoSlot ==
    /\ pc = "retry"
    /\ \E resp \in RetryResponses :
          /\ answers' = DictSet(answers, codes[pos], resp)
          /\ ContinueLoop(caller, args.dataset_type, args.parameters, codes, pos + 1,
                          IF ~IsTransportFailure(resp) /\ resp.status_code # 200
                          THEN results
                          ELSE DictSet(results, codes[pos], RetrySlot(codes[pos], resp)),
                          requests)
    /\ UNCHANGED <<caller, args, validation, plugin_calls, codes, registryVars, pureVars>>

\* a retry that is made again for as long as the answer is a non-200
RetryResponseAgain ==
    /\ pc = "retry"
    /\ \E resp \in RetryResponses :
          /\ answers' = DictSet(answers, codes[pos], resp)
          /\ IF ~IsTransportFailure(resp) /\ resp.status_code # 200
             THEN /\ pc' = "retry"
                  /\ requests' = Append(requests,
                                        Request(args.dataset_type, codes[pos], "csvdata",
                                                args.parameters))
                  /\ UNCHANGED <<pos, results, plugin_result, ret>>
             ELSE ContinueLoop(caller, args.dataset_type, args.parameters, codes, pos + 1,
                               DictSet(results, codes[pos], RetrySlot(codes[pos], resp)),
                               requests)
    /\ UNCHANGED <<caller, args, validation, plugin_calls, codes, registryVars, pureVars>>

\* the upstream answers the format=csvdata request of codes[pos]
RetryResponse ==
    /\ pc = "retry"
    /\ \E resp \in RetryResponses :
          /\ answers' = DictSet(answers, codes[pos], resp)
          /\ ContinueLoop(caller, args.dataset_type, args.parameters, codes, pos + 1,
                          DictSet(results, codes[pos], RetrySlot(codes[pos], resp)),
                          requests)
    /\ UNCHANGED <<caller, args, validation, plugin_calls, codes, registryVars, pureVars>>

\* the caller takes the value returned (or the exception raised) and the
\* call is over
Return ==
    /\ pc \in {"returned", "raised"}
    /\ pc' = "idle"
    /\ caller' = "none"
    /\ args' = NoArgs
    /\ validation' = "not run"
    /\ plugin_calls' = 0
    /\ codes' = <<>>
    /\ pos' = 0
    /\ results' = EmptyDict
    /\ requests' = <<>>
    /\ answers' = EmptyDict
    /\ plugin_result' = NotRun
    /\ ret' = NotRun
    /\ UNCHANGED <<registryVars, pureVars>>

\* the host application: managers, registrations and queries through a manager
Next ==
    \/ DataManagerInit
    \/ RegisterSource
    \/ ManagerQueryData
    \/ ManagerValidateQuery
    \/ ManagerSearchDatasets
    \/ ManagerGetSourceInfo
    \/ PluginSearchDatasets
    \/ FirstResponse
    \/ RetryResponse
    \/ Return

Spec == Init /\ [][Next]_vars

\* the application as app.py starts it: get_processors, then calls of the
\* manager
NextApp ==
    \/ AppGetProcessors
    \/ ManagerQueryData
    \/ ManagerValidateQuery
    \/ ManagerSearchDatasets
    \/ ManagerGetSourceInfo
    \/ FirstResponse
    \/ RetryResponse
    \/ Return

SpecApp == Init /\ [][NextApp]_vars

\* one ECBDataSource queried directly
InitPlugin ==
    /\ registry = EmptyDict
    /\ instances = 1
    /\ managers = 0
    /\ register_calls = <<>>
    /\ NoCall
    /\ input = NotRun
    /\ output = NotRun

NextPlugin ==
    \/ PluginQueryData
    \/ PluginSearchDatasets
    \/ FirstResponse
    \/ RetryResponse
    \/ Return

SpecPlugin == InitPlugin /\ [][NextPlugin]_vars

\* the same, when every session.get returns (with a response or by raising):
\* the call is blocked in session.get at "fetch" and at "retry" and goes on
\* when it returns
SpecPluginFair ==
    SpecPlugin /\ WF_vars(FirstResponse) /\ WF_vars(RetryResponse)

\* validate_parameters as a function of its arguments
ValidateInputs == [dataset_type : DatasetTypes, parameters : Parameters]

InitValidate ==
    /\ registry = EmptyDict
    /\ instances = 1
    /\ managers = 0
    /\ register_calls = <<>>
    /\ NoCall
    /\ input \in ValidateInputs
    /\ output = NotRun

ApplyValidate ==
    /\ output = NotRun
    /\ output' = validate_parameters(input.dataset_type, input.parameters)
    /\ UNCHANGED <<registryVars, callVars, input>>

NextValidate == ApplyValidate

SpecValidate == InitValidate /\ [][NextValidate]_vars

\* ---- the two ECBDataServer classes, as functions of their arguments and
\* of what the upstream answers ----

\* what the upstream does for a code: its answer to the jsondata request and
\* its answer to the csvdata request
Upstream(first, retry) == [first |-> first, retry |-> retry]

\* a decodable body whose only series has another key than "0:0:0:0:0:0:0"
JsonOtherKey ==
    [dataSets |-> <<[series |-> [keys |-> <<"1:0:0:0:0:0:0">>,
                                 val |-> [k \in {"1:0:0:0:0:0:0"} |->
                                    [observations |->
                                       [keys |-> <<"0">>,
                                        val |-> [i \in {"0"} |-> <<PyFloat(250, 2)>>]]]]]]>>,
     structure |-> [dimensions |-> [observation |->
                      <<[values |-> <<[id |-> DatePadded]>>]>>]]]

\* behaviours of the upstream for one code; the answer to the csvdata request
\* is asked for only when the body of the first answer does not decode
Behaviours ==
    {Upstream(f, TransportFailure) :
        f \in {TransportFailure, [status_code |-> 503],
               [status_code |-> 200, json |-> JsonGood],
               [status_code |-> 200, json |-> JsonNoStructure],
               [status_code |-> 200, json |-> JsonOtherKey]}}
    \cup {Upstream([status_code |-> 200, text |-> PyStr(CsvGood)], r) :
             r \in {TransportFailure, [status_code |-> 404],
                    [status_code |-> 200, text |-> PyStr(CsvGood)]}}

\* the upstream of a call: one behaviour for "MRR" and one for the other codes
Upstreams ==
    {[c \in {"MRR", "DFR", "MLF"} |-> IF c = "MRR" THEN a ELSE b] :
        a \in Behaviours, b \in Behaviours}

\* the fetch loop of the plugin from position i on, with every session.get
\* answered by the upstream: what query_data returns
RECURSIVE RunFetchLoop(_, _, _, _, _)
RunFetchLoop(dataset_type, items, i, res, upstream) ==
    LET n == NextRequest(items, i, Fetcher(dataset_type).mapping)
    IN  IF n = 0 THEN QueryFailed(dataset_type, "TypeError: unhashable type: 'list'")
        ELSE IF n > Len(items) THEN FetchReturn(dataset_type, items, res)
        ELSE LET u == upstream[items[n]]
                 slot == IF NeedsRetry(u.first) THEN RetrySlot(items[n], u.retry)
                         ELSE FirstSlot(items[n], u.first)
             IN  RunFetchLoop(dataset_type, items, n + 1, DictSet(res, items[n], slot),
                              upstream)

\* ECBDataSource.query_data with every session.get answered by the upstream
plugin_query_data(dataset_type, parameters, upstream) ==
    IF dataset_type \in {"interest_rates", "inflation_rates"}
    THEN LET c == ResolveCodes(dataset_type, parameters)
         IN  IF c.k # "list"
             THEN QueryFailed(dataset_type, "TypeError: object is not iterable")
             ELSE RunFetchLoop(dataset_type, c.items, 1, EmptyDict, upstream)
    ELSE NotImplemented(dataset_type)

\* DataManager.query_data with every session.get answered by the upstream
manager_query_data(reg, source_id, dataset_type, parameters, upstream) ==
    LET path == ManagerPath(reg, source_id, dataset_type, parameters)
        v == validate_parameters(dataset_type, parameters)
    IN  CASE path = "not found" -> SourceNotFound(reg, source_id)
          [] path = "raised" -> v
          [] path = "invalid" -> ValidationFailed(v)
          [] path = "query" ->
               ManagerReturn(plugin_query_data(dataset_type, parameters, upstream))

\* a wrapper that passes its arguments on whatever their value
WrapperParametersAsGiven(rate_types, start_date, end_date) ==
    [codes |-> rate_types, start_date |-> start_date, end_date |-> end_date]

\* the parameters data_manager.ECBDataServer.get_interest_rates builds: a key
\* for each argument that is truthy
WrapperParameters(rate_types, start_date, end_date) ==
    [codes |-> IF CodesTruthy(rate_types) THEN rate_types ELSE CodesAbsent,
     start_date |-> IF DateTruthy(start_date) THEN start_date ELSE DateAbsent,
     end_date |-> IF DateTruthy(end_date) THEN end_date ELSE DateAbsent]

\* data_manager.ECBDataServer.get_interest_rates; its DataManager has
\* registered "ecb"
wrapper_get_interest_rates(rate_types, start_date, end_date, upstream) ==
    manager_query_data(register_source(EmptyDict, "ecb", 1), "ecb", "interest_rates",
                       WrapperParameters(rate_types, start_date, end_date), upstream)

\* the loop of mcp_ecb_server.ECBDataServer.get_interest_rates from position i
\* on: the dict results, or the exception session.get raised
RECURSIVE LegacyLoop(_, _, _, _)
LegacyLoop(items, i, res, upstream) ==
    IF i > Len(items) THEN res
    ELSE IF ~InDict(items[i], rate_mappings) THEN LegacyLoop(items, i + 1, res, upstream)
    ELSE LET u == upstream[items[i]]
         IN  IF IsTransportFailure(u.first) THEN Raised(u.first.exc)
             ELSE IF u.first.status_code # 200
             THEN LegacyLoop(items, i + 1,
                             DictSet(res, items[i],
                                     [error |-> <<"Failed to fetch ", items[i], ": HTTP ",
                                                  ToString(u.first.status_code)>>]),
                             upstream)
             ELSE IF ~JsonDecodeFails(u.first)
             THEN LegacyLoop(items, i + 1,
                             DictSet(res, items[i], legacy_parse_ecb_json_data(u.first.json)),
                             upstream)
             ELSE IF IsTransportFailure(u.retry) THEN Raised(u.retry.exc)
             ELSE IF u.retry.status_code = 200
             THEN LegacyLoop(items, i + 1,
                             DictSet(res, items[i], parse_ecb_csv_data(u.retry.text)),
                             upstream)
             ELSE LegacyLoop(items, i + 1, res, upstream)

\* mcp_ecb_server.ECBDataServer.get_interest_rates: the whole body is in
\* try/except Exception
legacy_get_interest_rates(rate_types, start_date, end_date, upstream) ==
    LET items == IF ~CodesTruthy(rate_types) THEN <<"MRR", "DFR", "MLF">>
                 ELSE rate_types.items
        res == LegacyLoop(items, 1, EmptyDict, upstream)
    IN  IF IsRaised(res)
        THEN [success |-> FALSE, error |-> <<res.raised>>,
              message |-> <<"Failed to fetch ECB data">>]
        ELSE [success |-> TRUE, data |-> res,
              message |-> <<"Successfully fetched ECB rates: ", items>>]

\* arguments of get_interest_rates: None or a list of str for rate_types, None
\* or a str for the dates
CompatRateTypes ==
    {CodesNone} \cup {CodesList(s) : s \in SeqsUpTo({"MRR", "DFR", "HICP"}, MaxCodes)}

CompatStartDates == {DateNone, DateStr(DatePadded), DateStr(DateSlashes)}

CompatEndDates == {DateNone, DateStr(DatePadded)}

InitCompat ==
    /\ registry = EmptyDict
    /\ instances = 1
    /\ managers = 0
    /\ register_calls = <<>>
    /\ NoCall
    /\ output = NotRun
    /\ \E r \in CompatRateTypes, sd \in CompatStartDates, ed \in CompatEndDates,
          u \in Upstreams :
          input = [rate_types |-> r, start_date |-> sd, end_date |-> ed, upstream |-> u]

\* what the calls made so far returned
Returned == IF output = NotRun THEN <<>> ELSE output

\* data_manager.ECBDataServer.get_interest_rates is called
WrapperGetInterestRates ==
    /\ "wrapper" \notin DOMAIN Returned
    /\ output' = Returned @@
                 [wrapper |-> wrapper_get_interest_rates(input.rate_types, input.start_date,
                                                         input.end_date, input.upstream)]
    /\ UNCHANGED <<registryVars, callVars, input>>

\* mcp_ecb_server.ECBDataServer.get_interest_rates is called
LegacyGetInterestRates ==
    /\ "legacy" \notin DOMAIN Returned
    /\ output' = Returned @@
                 [legacy |-> legacy_get_interest_rates(input.rate_types, input.start_date,
                                                       input.end_date, input.upstream)]
    /\ UNCHANGED <<registryVars, callVars, input>>

NextCompat ==
    \/ WrapperGetInterestRates
    \/ LegacyGetInterestRates

SpecCompat == InitCompat /\ [][NextCompat]_vars

\* the parsers as functions of their argument: a mapping made of a dataSets
\* part, a structure part and other keys, or another value, for the JSON
\* parsers; a text or None for the delimited-text parser
InitParse ==
    /\ registry = EmptyDict
    /\ instances = 1
    /\ managers = 0
    /\ register_calls = <<>>
    /\ NoCall
    /\ output = NotRun
    /\ \/ \E fn \in {"json", "legacy_json"}, d \in DataSetsParts, t \in StructureParts,
              x \in ExtraParts :
             input = [fn |-> fn, json_data |-> d @@ t @@ x]
       \/ \E fn \in {"json", "legacy_json"}, j \in OtherPayloads :
             input = [fn |-> fn, json_data |-> j]
       \/ \E t \in CsvPayloads :
             input = [fn |-> "csv", csv_text |-> t]

ParseJson ==
    /\ output = NotRun
    /\ input.fn = "json"
    /\ output' = parse_ecb_json_data(input.json_data)
    /\ UNCHANGED <<registryVars, callVars, input>>

ParseJsonLegacy ==
    /\ output = NotRun
    /\ input.fn = "legacy_json"
    /\ output' = legacy_parse_ecb_json_data(input.json_data)
    /\ UNCHANGED <<registryVars, callVars, input>>

ParseCsv ==
    /\ output = NotRun
    /\ input.fn = "csv"
    /\ output' = parse_ecb_csv_data(input.csv_text)
    /\ UNCHANGED <<registryVars, callVars, input>>

NextParse ==
    \/ ParseJson
    \/ ParseJsonLegacy
    \/ ParseCsv

SpecParse == InitParse /\ [][NextParse]_vars


-----------------------------------------------------------------------------
(* Properties.                                                             *)

\* the dataset types query_data has a fetcher for
Implemented == {"interest_rates", "inflation_rates"}

Vocabulary(dataset_type) == Range(Fetcher(dataset_type).mapping.keys)

\* a direct call of ECBDataSource.query_data on a type with a fetcher has returned
PluginReturned ==
    /\ pc = "returned"
    /\ caller = "plugin"
    /\ args.dataset_type \in Implemented

\* the answer is an HTTP response with a status other than 200
NonOk(a) == "status_code" \in DOMAIN a /\ a.status_code # 200

\* the answer is a 200 whose body decodes and has the expected shape
WellFormedOk(a) ==
    /\ "status_code" \in DOMAIN a
    /\ a.status_code = 200
    /\ "json" \in DOMAIN a
    /\ a.json = JsonGood

\* the slot is an error whose text has the status in it
NamesStatus(slot, status) ==
    /\ IsError(slot)
    /\ \E i \in DOMAIN slot.error : slot.error[i] = ToString(status)

\* the loop ran over a list of codes of the vocabulary (given, or the default)
\* and each code was answered by a non-200 or by a well-formed 200
C1_Case ==
    /\ PluginReturned
    /\ args.parameters.codes.k \in {"list", "absent"}
    /\ \A i \in DOMAIN codes : codes[i] \in Vocabulary(args.dataset_type)
    /\ \A c \in Range(codes) :
          /\ c \in DictKeys(answers)
          /\ NonOk(answers.val[c]) \/ WellFormedOk(answers.val[c])

\* C1: when ECBDataSource.query_data has run over a list of valid codes, each
\* answered by a non-200 status or by a well-formed 200, the envelope has
\* success = true, data has a slot for every code, the slot of a code is an
\* error naming the status exactly when its answer was a non-200, and is a
\* Series with count = len(observations) otherwise; also when every code fails.
C1_PartialFailureIsSuccess ==
    C1_Case =>
        /\ ret.success = TRUE
        /\ DictKeys(ret.data) = Range(codes)
        /\ \A c \in Range(codes) :
              IF NonOk(answers.val[c])
              THEN NamesStatus(ret.data.val[c], answers.val[c].status_code)
              ELSE /\ IsSeries(ret.data.val[c])
                   /\ ret.data.val[c].count = Len(ret.data.val[c].observations)
                   /\ ret.data.val[c].count = 2

\* three codes, exactly one of them answered by a non-200
C1_Witness ==
    /\ C1_Case
    /\ Cardinality(Range(codes)) = 3
    /\ Cardinality({c \in Range(codes) : NonOk(answers.val[c])}) = 1


\* every item of the list the loop runs over is a str
AllStr(items) == \A i \in DOMAIN items : IsStrItem(items[i])

\* the positions after i whose code is in the vocabulary
LaterFetched(i) ==
    {j \in (i + 1)..Len(codes) : codes[j] \in Vocabulary(args.dataset_type)}

\* a step in which the request in flight (first or retry) raises: its code's
\* slot becomes an error carrying the exception's text, no other slot changes,
\* and the loop goes on to the next code of the vocabulary, or the call
\* returns success when there is none
C2_Step ==
    (/\ pc \in {"fetch", "retry"}
     /\ AllStr(codes)
     /\ IsTransportFailure(answers'.val[codes[pos]]))
    => /\ IsError(results'.val[codes[pos]])
       /\ \E i \in DOMAIN results'.val[codes[pos]].error :
             results'.val[codes[pos]].error[i] = answers'.val[codes[pos]].exc
       /\ DictKeys(results') = DictKeys(results) \cup {codes[pos]}
       /\ \A k \in DictKeys(results) \ {codes[pos]} : results'.val[k] = results.val[k]
       /\ IF LaterFetched(pos) = {}
          THEN /\ pc' = "returned"
               /\ ret'.success = TRUE
               /\ ret'.data = results'
          ELSE /\ pc' = "fetch"
               /\ pos' = CHOOSE j \in LaterFetched(pos) : \A m \in LaterFetched(pos) : j <= m
               /\ requests' = Append(requests, requests'[Len(requests')])
               /\ requests'[Len(requests')].code = codes[pos']

\* a call over a list of str has returned: success, and every code of the
\* vocabulary in the list was requested, answered and has a slot
C2_Final ==
    (PluginReturned /\ args.parameters.codes.k \in {"list", "absent"} /\ AllStr(codes))
    => /\ ret.success = TRUE
       /\ \A i \in DOMAIN codes :
             codes[i] \in Vocabulary(args.dataset_type)
             => /\ codes[i] \in DictKeys(answers)
                /\ codes[i] \in DictKeys(ret.data)
                /\ \E r \in DOMAIN requests : requests[r].code = codes[i]

\* C2: a transport failure of the first request or of the delimited-text
\* retry of a code is recorded as an error in that code's slot only, the loop
\* continues with the later codes, all of which are requested, and the
\* top-level success stays true.
C2_TransportFailureIsContained == [][C2_Step]_vars /\ []C2_Final

\* the retry of the first of three codes raised, and the call went on to
\* fetch the two later codes
C2_Witness ==
    /\ PluginReturned
    /\ codes = <<"MRR", "DFR", "MLF">>
    /\ IsTransportFailure(answers.val["MRR"])
    /\ \E r \in DOMAIN requests :
          requests[r].code = "MRR" /\ requests[r].params.format = "csvdata"
    /\ IsError(ret.data.val["MRR"])
    /\ IsSeries(ret.data.val["DFR"])
    /\ IsSeries(ret.data.val["MLF"])

\* the request just issued is the one before it, asking for csvdata
SameRequestAsCsv(reqs, reqs2) ==
    /\ Len(reqs2) = Len(reqs) + 1
    /\ SubSeq(reqs2, 1, Len(reqs)) = reqs
    /\ reqs2[Len(reqs2)].code = reqs[Len(reqs)].code
    /\ reqs2[Len(reqs2)].url = reqs[Len(reqs)].url
    /\ reqs2[Len(reqs2)].params = [reqs[Len(reqs)].params EXCEPT !.format = "csvdata"]
    /\ reqs[Len(reqs)].params.format = "jsondata"

\* no csvdata request is issued in the step
NoRetryIssued ==
    /\ pc' # "retry"
    /\ \A r \in DOMAIN requests' :
          r > Len(requests) => requests'[r].params.format = "jsondata"

\* the answer to the csvdata request: a 200 gives the Series parsed from its
\* text, a non-200 an error, and the code is not asked for a third time
C3_RetryStep ==
    pc = "retry" =>
        /\ NoRetryIssued
        /\ LET a == answers'.val[codes[pos]]
               slot == results'.val[codes[pos]]
           IN  /\ (~IsTransportFailure(a) /\ a.status_code = 200)
                  => /\ IsSeries(slot)
                     /\ a.text = PyStr(CsvGood)
                        => slot.observations =
                              <<[date |-> DatePadded, value |-> PyFloat(25, 1)],
                                [date |-> DateFebruary, value |-> PyNone]>>
               /\ NonOk(a) => IsError(slot)

\* the body of a 200 does not parse as a Series: json() rejects it, or the
\* structured parser returns its error variant
FailsStructuredParsing(a) ==
    \/ JsonDecodeFails(a)
    \/ IsError(parse_ecb_json_data(a.json))

\* C3, as claimed: a first answer that is a 200 whose body fails structured
\* parsing is followed by exactly one csvdata retry of the same request; any
\* other first answer by none.
C3_FirstStepAsClaimed ==
    pc = "fetch" =>
        LET a == answers'.val[codes[pos]]
        IN  IF ~IsTransportFailure(a) /\ a.status_code = 200 /\ FailsStructuredParsing(a)
            THEN pc' = "retry" /\ SameRequestAsCsv(requests, requests')
            ELSE NoRetryIssued

\* C3, as claimed, over every step of the loop: the retry follows every 200
\* whose body fails structured parsing.
C3_RetryOnAnyParseFailure == [][C3_FirstStepAsClaimed /\ C3_RetryStep]_vars

\* the first answer: a 200 whose body json() rejects is followed by the
\* csvdata retry of the same request; any other first answer by no retry, and
\* a 200 whose body decodes gets the structured parser's result as its slot,
\* error variant included
C3_FirstStep ==
    pc = "fetch" =>
        LET a == answers'.val[codes[pos]]
        IN  IF ~IsTransportFailure(a) /\ a.status_code = 200 /\ JsonDecodeFails(a)
            THEN pc' = "retry" /\ SameRequestAsCsv(requests, requests')
            ELSE /\ NoRetryIssued
                 /\ (~IsTransportFailure(a) /\ a.status_code = 200)
                    => \/ IsSeries(results'.val[codes[pos]])
                       \/ /\ IsError(results'.val[codes[pos]])
                          /\ results'.val[codes[pos]].error[1] = "Failed to parse JSON data: "

\* C3 (amended): exactly one csvdata retry of the same request is issued when
\* the first answer is a 200 whose body is not decodable as JSON; a 200 retry
\* gives the Series parsed from its text and a non-200 retry an error. No
\* retry is issued when the first answer is a non-200, or a 200 whose body
\* decodes: then the slot is what the structured parser returns, a Series or
\* its error variant.
C3_RetryOnDecodeFailure == [][C3_FirstStep /\ C3_RetryStep]_vars

\* a code was asked for again as csvdata, the retry was a 200, and the slot
\* holds the two observations of its text
C3_Witness ==
    \E r \in DOMAIN requests :
        /\ requests[r].params.format = "csvdata"
        /\ requests[r].code \in DictKeys(results)
        /\ ~IsTransportFailure(answers.val[requests[r].code])
        /\ answers.val[requests[r].code].status_code = 200
        /\ IsSeries(results.val[requests[r].code])
        /\ results.val[requests[r].code].count = 2


\* the ids registered: the keys of _sources
Registered == DOMAIN registry.val

\* C4: in a DataManager.query_data call whose source id is unregistered or
\* whose parameters validate_parameters rejects (or cannot check), the
\* plugin's query_data is not invoked and no request is issued; whenever the
\* plugin was invoked or a request issued, validation ran and returned
\* valid = true.
C4_ValidationBeforeQuery ==
    caller = "manager" =>
        LET v == validate_parameters(args.dataset_type, args.parameters)
        IN  /\ (args.source_id \notin Registered \/ IsRaised(v) \/ ~v.valid)
               => (plugin_calls = 0 /\ requests = <<>>)
            /\ (plugin_calls > 0 \/ requests # <<>>)
               => (validation = "valid" /\ args.source_id \in Registered)

\* a call on a registered source returned the validation failure, the plugin
\* untouched
C4_Witness ==
    /\ caller = "manager"
    /\ pc = "returned"
    /\ args.source_id \in Registered
    /\ validation = "invalid"
    /\ plugin_calls = 0
    /\ requests = <<>>
    /\ "validation_errors" \in DOMAIN ret

\* the parameters name the codes as a list of str, or do not name them
CodesWellTyped(parameters) ==
    \/ parameters.codes.k = "absent"
    \/ parameters.codes.k = "list" /\ AllStr(parameters.codes.items)

C6_ValidationNeverRaises ==
    output # NotRun =>
        /\ ~IsRaised(output)
        /\ DOMAIN output = {"valid", "errors", "suggestions"}

\* C7: DataManager.query_data with an unregistered source id returns (it does
\* not raise) without calling the plugin: success = false, an error that has
\* the id in it, and a message that lists exactly the registered ids, each
\* once.
C7_UnknownSource ==
    (caller = "manager" /\ args.source_id \notin Registered) =>
        /\ pc = "returned"
        /\ plugin_calls = 0
        /\ requests = <<>>
        /\ ret.success = FALSE
        /\ \E i \in DOMAIN ret.error : ret.error[i] = args.source_id
        /\ Len(ret.message) = 2
        /\ Range(ret.message[2]) = Registered
        /\ Len(ret.message[2]) = Cardinality(Registered)

\* "imf" was asked for while two sources were registered
C7_Witness ==
    /\ caller = "manager"
    /\ pc = "returned"
    /\ args.source_id = "imf"
    /\ Registered = {"ecb", "fred"}
    /\ ret.success = FALSE

\* C8: DataManager.query_data returns without calling the plugin only when the
\* source is not registered or validation fails; when the source is
\* registered and validation returns valid = true the plugin's query_data is
\* called once and the value it returns is the value returned to the caller.
C8_PluginResultUnchanged ==
    (caller = "manager" /\ pc = "returned") =>
        LET v == validate_parameters(args.dataset_type, args.parameters)
        IN  IF args.source_id \in Registered /\ ~IsRaised(v) /\ v.valid
            THEN /\ plugin_calls = 1
                 /\ plugin_result # NotRun
                 /\ ret = plugin_result
            ELSE /\ plugin_calls = 0
                 /\ plugin_result = NotRun

\* a query through the manager fetched observations and returned them
C8_Witness ==
    /\ caller = "manager"
    /\ pc = "returned"
    /\ plugin_calls = 1
    /\ ret.success = TRUE
    /\ \E k \in DictKeys(ret.data) : IsSeries(ret.data.val[k]) /\ ret.data.val[k].count = 2
    /\ ret = plugin_result

\* C9: every value DataManager.query_data returns has a boolean success, has
\* data (a mapping from code to a Series or a per-series error) exactly when
\* success is true and has error (a message) exactly when success is false.
C9_Envelope ==
    (caller = "manager" /\ pc = "returned") =>
        /\ "success" \in DOMAIN ret
        /\ ret.success \in BOOLEAN
        /\ ("data" \in DOMAIN ret) <=> ret.success
        /\ ("error" \in DOMAIN ret) <=> ~ret.success
        /\ ret.success
           => \A k \in DictKeys(ret.data) : IsSeries(ret.data.val[k]) \/ IsError(ret.data.val[k])
        /\ ~ret.success => Len(ret.error) >= 1

\* the manager returned the failure envelope of a rejected validation
C9_Witness ==
    /\ caller = "manager"
    /\ pc = "returned"
    /\ validation = "invalid"
    /\ ret.success = FALSE
    /\ "error" \in DOMAIN ret
    /\ "data" \notin DOMAIN ret


\* validate_parameters has returned a ValidationResult
ValidateReturned == output # NotRun /\ ~IsRaised(output)

\* the date value is a str that is not a date in YYYY-MM-DD form
MalformedDate(d) == d.k = "str" /\ ~StrptimeOk(d.chars)

\* the malformed date fields of the parameters, in the order they are checked
MalformedFields(parameters) ==
    SelectSeq(<<"start_date", "end_date">>, LAMBDA f : MalformedDate(parameters[f]))

\* the list names a code outside the vocabulary of the dataset type
HasInvalidCode(dataset_type, parameters) ==
    /\ parameters.codes.k = "list"
    /\ \E i \in DOMAIN parameters.codes.items :
          parameters.codes.items[i] \notin Vocabulary(dataset_type)

\* C10: validate_parameters accumulates: errors holds at most one leading
\* entry about the dataset type or its codes (the "not supported" entry for a
\* type outside the catalog; for interest_rates and inflation_rates the
\* invalid-codes entry, present exactly when the list has a code outside the
\* vocabulary), followed by one entry per malformed date field, start_date
\* before end_date; suggestions has one entry per error in the same order;
\* valid is true exactly when errors is empty.
C10_ErrorsAccumulate ==
    ValidateReturned =>
        LET dt == input.dataset_type
            p == input.parameters
            errs == output.errors
            sugg == output.suggestions
            fields == MalformedFields(p)
            lead == Len(errs) - Len(fields)
        IN  /\ lead \in {0, 1}
            /\ Len(sugg) = Len(errs)
            /\ output.valid <=> (errs = <<>>)
            /\ dt \notin Range(get_supported_datasets)
               => /\ lead = 1
                  /\ errs[1][2] = dt
                  /\ errs[1][3] = "' not supported"
                  /\ sugg[1][1] = "Supported datasets: "
            /\ dt \in Implemented
               => /\ (lead = 1) <=> HasInvalidCode(dt, p)
                  /\ lead = 1
                     => /\ errs[1][3] = " types: "
                        /\ errs[1][4] = InvalidCodes(p.codes.items, Fetcher(dt).mapping)
                        /\ sugg[1][1] = "Valid "
            /\ \A k \in DOMAIN fields :
                  /\ errs[lead + k][1] = "Invalid "
                  /\ errs[lead + k][2] = fields[k]
                  /\ errs[lead + k][3] = " format: "
                  /\ sugg[lead + k][1] = fields[k]

\* three violations at once: a type outside the catalog and two malformed dates
C10_Witness ==
    /\ ValidateReturned
    /\ input.dataset_type = "stock_prices"
    /\ Len(MalformedFields(input.parameters)) = 2
    /\ Len(output.errors) = 3
    /\ output.valid = FALSE


\* the errors of a ValidationResult that are about series codes
CodeErrors(out) == SelectSeq(out.errors, LAMBDA e : e[3] = " types: ")

\* C11: for interest_rates and inflation_rates and a list of codes, when the
\* list has a code outside the vocabulary of the dataset type the result has
\* valid = false and exactly one code error, which names each invalid entry of
\* the list and no valid one; when every code of the list is in the vocabulary
\* there is no code error.
C11_InvalidCodesNamed ==
    (/\ ValidateReturned
     /\ input.dataset_type \in Implemented
     /\ input.parameters.codes.k = "list") =>
        LET items == input.parameters.codes.items
            vocab == Vocabulary(input.dataset_type)
            bad == {i \in DOMAIN items : items[i] \notin vocab}
            ce == CodeErrors(output)
        IN  IF bad # {}
            THEN /\ output.valid = FALSE
                 /\ Len(ce) = 1
                 /\ Len(ce[1][4]) = Cardinality(bad)
                 /\ Range(ce[1][4]) = {items[i] : i \in bad}
                 /\ Range(ce[1][4]) \cap vocab = {}
            ELSE ce = <<>>

\* a list with one valid and one invalid rate type: the error names only the
\* invalid one
C11_Witness ==
    /\ ValidateReturned
    /\ input.dataset_type = "interest_rates"
    /\ input.parameters.codes = CodesList(<<"MRR", "HICP">>)
    /\ output.valid = FALSE
    /\ CodeErrors(output)[1][4] = <<"HICP">>


\* a string in the form YYYY-MM-DD: four digits, two digits, two digits,
\* separated by "-", naming a day of the calendar
StrictYMD(s) ==
    /\ Len(s) = 10
    /\ \A i \in {1, 2, 3, 4, 6, 7, 9, 10} : s[i] \in Digits
    /\ s[5] = "-"
    /\ s[8] = "-"
    /\ LET y == DigitsVal(SubSeq(s, 1, 4))
           m == DigitsVal(SubSeq(s, 6, 7))
           d == DigitsVal(SubSeq(s, 9, 10))
       IN  /\ y >= 1
           /\ m \in 1..12
           /\ d \in 1..DaysInMonth(y, m)

\* the date-format errors of a ValidationResult about one field
DateErrors(out, field) ==
    SelectSeq(out.errors, LAMBDA e : e[2] = field /\ e[3] = " format: ")

\* C12: for each of start_date and end_date whose value is a string, the
\* result has no date-format error for the field when the string is a valid
\* YYYY-MM-DD date and exactly one for every other string, the strings written
\* without zero padding and the empty string included.
C12_DateFormatChecked ==
    ValidateReturned =>
        \A f \in {"start_date", "end_date"} :
            LET d == input.parameters[f]
            IN  d.k = "str" =>
                   Len(DateErrors(output, f)) = (IF StrictYMD(d.chars) THEN 0 ELSE 1)


\* validate_query applied to the arguments of the call in progress
DryRun == validate_query(registry, args.source_id, args.dataset_type, args.parameters)

\* C13: validate_query and query_data apply the same rules. In a
\* DataManager.query_data call the plugin is left uncalled exactly when
\* validate_query on the same arguments returns valid = false, and the
\* envelope of a validation failure carries the errors and suggestions of
\* validate_query; one raises exactly when the other does. A
\* DataManager.validate_query call returns what the rules give, is invalid
\* exactly when query_data would stop before the plugin, and neither calls the
\* plugin's query_data nor issues a request.
C13_DryRunSameRules ==
    /\ (caller = "manager" /\ pc # "raised")
       => /\ ~IsRaised(DryRun)
          /\ (DryRun.valid = FALSE) <=> (plugin_calls = 0)
          /\ (pc = "returned" /\ validation = "invalid")
             => /\ ret.validation_errors = DryRun.errors
                /\ ret.suggestions = DryRun.suggestions
    /\ (caller = "manager" /\ pc = "raised") => IsRaised(DryRun)
    /\ caller = "validate"
       => /\ plugin_calls = 0
          /\ requests = <<>>
          /\ plugin_result = NotRun
          /\ LET path == ManagerPath(registry, args.source_id, args.dataset_type,
                                     args.parameters)
             IN  IF pc = "raised" THEN path = "raised"
                 ELSE /\ ret = DryRun
                      /\ (ret.valid = FALSE) <=> (path \in {"not found", "invalid"})

\* validate_query rejected the parameters of a registered source, with two
\* errors, and no plugin was queried
C13_Witness ==
    /\ caller = "validate"
    /\ pc = "returned"
    /\ args.source_id \in Registered
    /\ ret.valid = FALSE
    /\ Len(ret.errors) = 2
    /\ plugin_calls = 0


\* a parser was applied to its argument
Parsed(fn) == output # NotRun /\ input.fn = fn

\* the payload is a mapping (a JSON object)
IsMapping(j) == j \notin {PyNone, PyInt, PyList}

\* C14: both parsers are total and two-variant: applied to any argument they
\* return, without raising, either {observations, count} with count the
\* length of observations and no error key, or {error} with no observations
\* key.
C14_ParsersTotal ==
    output # NotRun =>
        /\ ~IsRaised(output)
        /\ \/ /\ DOMAIN output = {"observations", "count"}
              /\ output.count = Len(output.observations)
              /\ \A k \in DOMAIN output.observations :
                    DOMAIN output.observations[k] = {"date", "value"}
           \/ /\ DOMAIN output = {"error"}
              /\ Len(output.error) = 2

\* an exception inside the loop over the observations (an index beyond the
\* date array) came back as the error variant
C14_Witness ==
    /\ Parsed("json")
    /\ IsMapping(input.json_data)
    /\ "structure" \in DOMAIN input.json_data
    /\ DOMAIN output = {"error"}
    /\ output.error[2] = "IndexError: list index out of range"

\* the payload has the expected shape with N observations of the first series
\* keyed by 0..N-1 in some order and a date array of N entries
RoundTripPayload(j) ==
    /\ IsMapping(j)
    /\ "dataSets" \in DOMAIN j
    /\ j.dataSets # <<>>
    /\ "series" \in DOMAIN j.dataSets[1]
    /\ j.dataSets[1].series.keys # <<>>
    /\ "observations" \in DOMAIN j.dataSets[1].series.val[j.dataSets[1].series.keys[1]]
    /\ "structure" \in DOMAIN j
    /\ j.structure.dimensions.observation # <<>>
    /\ LET o == j.dataSets[1].series.val[j.dataSets[1].series.keys[1]].observations
           values == j.structure.dimensions.observation[1].values
       IN  /\ Len(values) = Len(o.keys)
           /\ \A n \in DOMAIN values : "id" \in DOMAIN values[n]
           /\ Range(o.keys) = {ToString(i) : i \in 0..(Len(o.keys) - 1)}

\* C15: a payload whose first series has N observations keyed by the indices
\* 0..N-1 and whose date array has N entries parses to a Series with count N;
\* its k-th observation is the k-th entry of the observations mapping in
\* iteration order, with the date of the entry's index in the date array and
\* the first element of the entry's tuple as value, or None when that element
\* is null or the tuple is empty.
C15_RoundTrip ==
    (Parsed("json") /\ RoundTripPayload(input.json_data)) =>
        LET j == input.json_data
            o == j.dataSets[1].series.val[j.dataSets[1].series.keys[1]].observations
            values == j.structure.dimensions.observation[1].values
            N == Len(o.keys)
        IN  /\ DOMAIN output = {"observations", "count"}
            /\ output.count = N
            /\ Len(output.observations) = N
            /\ \A k \in 1..N :
                  LET index == CHOOSE i \in 0..(N - 1) : ToString(i) = o.keys[k]
                      tuple == o.val[o.keys[k]]
                  IN  /\ output.observations[k].date = values[index + 1].id
                      /\ output.observations[k].value =
                            (IF tuple = <<>> THEN PyNone ELSE tuple[1])

\* two observations whose keys come in the order "1", "0": the Series keeps
\* that order, so its first date is the second entry of the date array
C15_Witness ==
    /\ Parsed("json")
    /\ RoundTripPayload(input.json_data)
    /\ output.count = 2
    /\ output.observations[1].date = DateOfMonth(2)
    /\ output.observations[2].date = DateOfMonth(1)
    /\ output.observations[1].value = PyFloat(250, 2)
    /\ output.observations[2].value = PyNone

ParsedJson == output # NotRun /\ input.fn \in {"json", "legacy_json"}

\* the observations the parser applied reads
ObservationsRead ==
    IF input.fn = "json" THEN FirstObservations(input.json_data)
    ELSE LegacyObservations(input.json_data)

\* the payload has a date array under structure.dimensions.observation[0].values
DateArrayPresent(j) ==
    /\ "structure" \in DOMAIN j
    /\ "dimensions" \in DOMAIN j.structure
    /\ "observation" \in DOMAIN j.structure.dimensions
    /\ j.structure.dimensions.observation # <<>>
    /\ "values" \in DOMAIN j.structure.dimensions.observation[1]

\* the key is an integer that indexes an entry of the date array that has an
\* id (a negative integer counts from the end)
GoodIndex(k, values) ==
    \E i \in (0 - Len(values))..(Len(values) - 1) :
        /\ ToString(i) = k
        /\ "id" \in DOMAIN values[IF i >= 0 THEN i + 1 ELSE Len(values) + i + 1]

\* the payload has data sets but not the shape the parser walks
ShapeMismatch(j, o) ==
    \/ ~DateArrayPresent(j)
    \/ \E n \in DOMAIN o.keys :
          ~GoodIndex(o.keys[n], j.structure.dimensions.observation[1].values)

ParsedText == output # NotRun /\ input.fn = "csv" /\ "chars" \in DOMAIN input.csv_text

\* the line has at least two comma-separated fields
HasTwoFields(line) == \E i \in DOMAIN line : line[i] = ","

\* position of the first comma of a line that has one
FirstComma(line) ==
    CHOOSE i \in DOMAIN line : line[i] = "," /\ \A j \in 1..(i - 1) : line[j] # ","

\* the first field of a line that has two, without the quotes around it
DateField(line) == Strip(SubSeq(line, 1, FirstComma(line) - 1), {"\""})

\* the second field of a line that has two
ValueField(line) ==
    LET rest == SubSeq(line, FirstComma(line) + 1, Len(line))
    IN  IF HasTwoFields(rest) THEN SubSeq(rest, 1, FirstComma(rest) - 1) ELSE rest

\* the lines of the text as it is, and after the whitespace around the text
\* is dropped
RawLines(text) == Split(text.chars, "\n")

TrimmedLines(text) == Split(Strip(text.chars, Whitespace), "\n")

\* the lines after the first that have at least two fields, in order
DataLines(lines) == SelectSeq(Tail(lines), HasTwoFields)

\* the value field holds no number: it is empty, the sentinel ".", or text
\* float() rejects
NoNumber(field) == field = <<>> \/ field = <<".">> \/ IsRaised(FloatOf(field))

\* C18: every data line with a date field and a value field yields an
\* Observation, and its value is None when the value field is empty, is the
\* sentinel "." or does not parse as a number (a number otherwise); such a
\* field never gives zero, never drops the line and never turns the result
\* into the error variant.
C18_MissingValueIsNone ==
    ParsedText =>
        LET kept == IF Len(TrimmedLines(input.csv_text)) < 2 THEN <<>>
                    ELSE DataLines(TrimmedLines(input.csv_text))
        IN  /\ DOMAIN output = {"observations", "count"}
            /\ Len(output.observations) = Len(kept)
            /\ \A k \in DOMAIN kept :
                  IF NoNumber(ValueField(kept[k]))
                  THEN output.observations[k].value = PyNone
                  ELSE /\ output.observations[k].value = FloatOf(ValueField(kept[k]))
                       /\ output.observations[k].value # PyNone

\* a header, a line with the sentinel and a line with text for a value: two
\* observations, both without value
C18_Witness ==
    /\ ParsedText
    /\ input.csv_text = PyStr(JoinLines(<<LineHeader, LineSentinel, LineNotNumber>>))
    /\ output.count = 2
    /\ output.observations[1] = [date |-> <<"b">>, value |-> PyNone]
    /\ output.observations[2] = [date |-> <<"d">>, value |-> PyNone]

\* what the claim says of a list of lines: fewer than two give the empty
\* Series; otherwise the first is dropped and each later line with two fields
\* gives one observation, in line order
LinesRule(lines) ==
    IF Len(lines) < 2 THEN output = [observations |-> <<>>, count |-> 0]
    ELSE /\ DOMAIN output = {"observations", "count"}
         /\ output.count = Len(DataLines(lines))
         /\ Len(output.observations) = Len(DataLines(lines))
         /\ \A k \in DOMAIN DataLines(lines) :
               output.observations[k].date = DateField(DataLines(lines)[k])

OneColumnText(text) ==
    /\ Len(RawLines(text)) >= 2
    /\ \A n \in DOMAIN RawLines(text) : ~HasTwoFields(RawLines(text)[n])

CallsFor(id) == {i \in DOMAIN register_calls : register_calls[i].source_id = id}

\* the source passed to the last register_source call for an id, 0 (None)
\* when there was no such call
LastRegistered(id) ==
    IF CallsFor(id) = {} THEN 0
    ELSE register_calls[CHOOSE i \in CallsFor(id) : \A j \in CallsFor(id) : j <= i].source

\* what the registry answers after any sequence of operations
C21_Lookup ==
    /\ \A id \in QueryIds : get_source(registry, id) = LastRegistered(id)
    /\ DictKeys(list_sources(registry)) = {id \in QueryIds : CallsFor(id) # {}}
    /\ DictKeys(get_all_datasets(registry)) = {id \in QueryIds : CallsFor(id) # {}}

\* what a step does to the registry: it changes only in a register_source
\* call, which no query, validate, search or info call makes, and no id
\* leaves it
C21_Step ==
    /\ registry' # registry => Len(register_calls') = Len(register_calls) + 1
    /\ caller' \in {"manager", "validate", "search", "info"} => registry' = registry
    /\ pc # "idle" => registry' = registry
    /\ DictKeys(registry) \subseteq DictKeys(registry')

\* C21: after any sequence of registry and manager operations, get_source(id)
\* returns the plugin passed to the most recent register_source(id, .), or
\* None if id was never registered, and list_sources and get_all_datasets have
\* exactly the registered ids as keys; only register_source changes the
\* mapping (query, validate, search and info operations leave it unchanged)
\* and no operation removes an id.
C21_RegistryLastWriteWins == []C21_Lookup /\ [][C21_Step]_vars

\* "ecb" was registered twice and a search has run: the lookup gives the
\* second source
C21_Witness ==
    /\ Cardinality(CallsFor("ecb")) = 2
    /\ get_source(registry, "ecb") = 2
    /\ pc = "returned"
    /\ caller = "search"


\* two characters that are the same letter, whatever their case
SameLetter(a, b) == a = b \/ LowerChar(a) = b \/ a = LowerChar(b)

\* the text has the part in it, ignoring case
ContainsIgnoringCase(text, part) ==
    \E i \in 0..(Len(text) - Len(part)) :
        \A j \in 1..Len(part) : SameLetter(text[i + j], part[j])

\* the catalog entries whose id or description has the query in it
ExpectedMatches(query) ==
    {id \in Range(get_supported_datasets) :
        \/ ContainsIgnoringCase(IdChars(id), query)
        \/ ContainsIgnoringCase(Description(id), query)}

\* the datasets are exactly the catalog entries that match, in catalog order,
\* each with its description
IsFilteredCatalog(datasets, query) ==
    /\ DictKeys(datasets) = ExpectedMatches(query)
    /\ datasets.keys = SelectSeq(get_supported_datasets,
                                 LAMBDA id : id \in ExpectedMatches(query))
    /\ \A id \in DictKeys(datasets) : datasets.val[id] = Description(id)

\* a search call has returned
Searched == pc = "returned" /\ caller \in {"search", "plugin search"}

\* the search of one plugin, and the search of all: what the claim says of
\* them
C22_PluginAndFanOut ==
    /\ (Searched /\ caller = "plugin search")
       => /\ ret.success = TRUE
          /\ IsFilteredCatalog(ret.datasets, args.parameters.query)
    /\ (Searched /\ caller = "search" /\ ~SourceIdTruthy(args.source_id))
       => /\ ret.success = TRUE
          /\ ret.results_by_source.keys = registry.keys
          /\ \A sid \in DictKeys(registry) :
                IsFilteredCatalog(ret.results_by_source.val[sid], args.parameters.query)
    /\ (Searched /\ caller = "search" /\ args.source_id \in DictKeys(registry))
       => /\ DOMAIN ret = {"success", "datasets", "message"}
          /\ ret.success = TRUE
          /\ IsFilteredCatalog(ret.datasets, args.parameters.query)

\* C22, as claimed: dataset search always succeeds, and is the filter of the
\* catalog described.
C22_SearchAlwaysSucceeds ==
    /\ C22_PluginAndFanOut
    /\ Searched => ret.success = TRUE

\* C22 (amended): ECBDataSource.search_datasets(query) returns success=true
\* with exactly the catalog entries whose id or description contains query
\* ignoring case (possibly none); DataManager.search_datasets without a
\* source id returns success=true with one entry per registered source
\* holding that source's matches; with the id of a registered source it
\* returns that plugin's result alone, and with an id that is not registered
\* it returns success=false with a not-found error.
C22_SearchFiltersCatalog ==
    /\ C22_PluginAndFanOut
    /\ (Searched /\ caller = "search" /\ SourceIdTruthy(args.source_id)
                 /\ args.source_id \notin DictKeys(registry))
       => /\ ret.success = FALSE
          /\ DOMAIN ret = {"success", "error"}
          /\ ret.error = <<"Data source '", args.source_id, "' not found">>

\* "RATES" was searched in all of two registered sources: four matches each
C22_Witness ==
    /\ Searched
    /\ caller = "search"
    /\ args.source_id = NoSourceId
    /\ args.parameters.query = <<"R", "A", "T", "E", "S">>
    /\ Len(registry.keys) = 2
    /\ \A sid \in DictKeys(registry) :
          DictKeys(ret.results_by_source.val[sid])
             = {"interest_rates", "inflation_rates", "money_market", "exchange_rates"}


\* a direct interest_rates query whose parameters have no rate_types key
DefaultRatesCall ==
    /\ caller = "plugin"
    /\ pc # "idle"
    /\ args.dataset_type = "interest_rates"
    /\ args.parameters.codes = CodesAbsent

\* the codes of the format=jsondata requests issued so far, in order
FirstRequestCodes ==
    LET firsts == SelectSeq(requests, LAMBDA r : r.params.format = "jsondata")
    IN  [i \in DOMAIN firsts |-> firsts[i].code]

\* C23: when the parameters of an interest_rates query carry no rate_types,
\* the query fetches exactly the fallback set MRR, DFR, MLF, in that order
\* (the loop runs over that list, and the codes requested so far are a prefix
\* of it), and on return data has exactly those three slots, in that order.
C23_DefaultRates ==
    DefaultRatesCall =>
        /\ codes = <<"MRR", "DFR", "MLF">>
        /\ Len(FirstRequestCodes) <= 3
        /\ FirstRequestCodes = SubSeq(<<"MRR", "DFR", "MLF">>, 1, Len(FirstRequestCodes))
        /\ \A r \in DOMAIN requests :
              requests[r].params.format = "csvdata"
              => r > 1 /\ requests[r - 1].code = requests[r].code
        /\ pc = "returned"
           => /\ ret.success = TRUE
              /\ ret.data.keys = <<"MRR", "DFR", "MLF">>
              /\ FirstRequestCodes = <<"MRR", "DFR", "MLF">>

\* such a query has returned after three requests and a retry
C23_Witness ==
    /\ DefaultRatesCall
    /\ pc = "returned"
    /\ Len(requests) = 4
    /\ ret.data.keys = <<"MRR", "DFR", "MLF">>


\* C24: after the startup of the application (get_processors) the registry
\* entry for "ecb" has been written exactly once, one plugin has been
\* constructed, and the entry holds the plugin of that one write.
C24_RegisteredOnce ==
    managers >= 1 =>
        /\ Cardinality(CallsFor("ecb")) = 1
        /\ instances = 1
        /\ \A i \in CallsFor("ecb") : get_source(registry, "ecb") = register_calls[i].source


\* a direct query_data call on a type with a fetcher is in progress or has
\* returned
InPluginCall == caller = "plugin" /\ pc # "idle" /\ args.dataset_type \in Implemented

\* the items of the list that are codes of the vocabulary, in list order
FetchedItems(items) ==
    SelectSeq(items, LAMBDA c : IsHashable(c) /\ c \in Vocabulary(args.dataset_type))

\* the requests so far go through the list in order: the first requests are
\* for a prefix of the codes to fetch, the one in flight is for codes[pos], a
\* retry comes right after the first request of its code, and every request
\* but the one in flight has its slot recorded
C25_InOrder ==
    InPluginCall =>
        /\ Len(FirstRequestCodes) <= Len(FetchedItems(codes))
        /\ FirstRequestCodes = SubSeq(FetchedItems(codes), 1, Len(FirstRequestCodes))
        /\ pc \in {"fetch", "retry"}
           => /\ requests[Len(requests)].code = codes[pos]
              /\ FirstRequestCodes = FetchedItems(SubSeq(codes, 1, pos))
              /\ requests[Len(requests)].params.format
                    = (IF pc = "fetch" THEN "jsondata" ELSE "csvdata")
        /\ \A r \in DOMAIN requests :
              /\ requests[r].params.format = "csvdata"
                 => /\ r > 1
                    /\ requests[r - 1].params.format = "jsondata"
                    /\ requests[r - 1].code = requests[r].code
              /\ (r < Len(requests) /\ requests[r].code # requests[Len(requests)].code)
                 => requests[r].code \in DictKeys(results)
              /\ (pc = "returned" /\ ret.success) => requests[r].code \in DictKeys(ret.data)
        /\ Len(requests) <= 2 * Len(codes)

\* a request is issued only by the step that records the slot of the code
\* before it, or that starts the call or the retry
C25_Step ==
    (InPluginCall /\ pc' = "fetch" /\ pc \in {"fetch", "retry"})
    => /\ Len(requests') = Len(requests) + 1
       /\ codes[pos] \in DictKeys(results')
       /\ pos' > pos

\* C25: within one ECBDataSource.query_data call the series are fetched one
\* after the other in the order of the code list: no request for a later code
\* is issued before the slot of the code before it is recorded, each code of
\* the vocabulary in the list causes one request, or two when the second is
\* the delimited-text retry, there are at most 2N requests for N codes, and
\* when every network call returns the call returns.
C25_Sequential ==
    /\ []C25_InOrder
    /\ [][C25_Step]_vars
    /\ (InPluginCall /\ pc \in {"fetch", "retry"}) ~> (pc = "returned")

\* a call over two codes has returned after four requests: each code was
\* asked for again as csvdata
C25_Witness ==
    /\ InPluginCall
    /\ pc = "returned"
    /\ Len(codes) = 2
    /\ Len(requests) = 4
    /\ requests[2].params.format = "csvdata"
    /\ requests[4].params.format = "csvdata"


\* the key is the decimal text of a position 0..len(values)-1 of the date array
InRangeIndex(k, values) == \E i \in 0..(Len(values) - 1) : ToString(i) = k

\* the payload has data sets, and the path to the date array is missing or a
\* key of the observations read is no position of the date array
StructuralMismatch(j) ==
    /\ "dataSets" \in DOMAIN j
    /\ j.dataSets # <<>>
    /\ \/ ~DateArrayPresent(j)
       \/ \E n \in DOMAIN FirstObservations(j).keys :
             ~InRangeIndex(FirstObservations(j).keys[n],
                           j.structure.dimensions.observation[1].values)

\* C26: in the structured parser every structural mismatch yields the error
\* variant: an observation key that, read as an integer, lies outside
\* 0..len(values)-1 (too large or negative), a key that is no integer, or a
\* missing structure/dimensions/values path gives {error: ...}, never a Series.
C26_MismatchIsError ==
    (/\ output # NotRun
     /\ input.fn = "json"
     /\ IsMapping(input.json_data)
     /\ StructuralMismatch(input.json_data))
    => DOMAIN output = {"error"}


\* the date was given: it has a value that is not None and not the empty str
Given(d) == d.k = "int" \/ (d.k = "str" /\ d.chars # <<>>)

\* the params carry the bound exactly when the date was given, with its value
CarriesBound(params, bound, d) ==
    /\ (bound \in DOMAIN params) <=> Given(d)
    /\ bound \in DOMAIN params => params[bound] = d

\* C27: every request issued for a series carries startPeriod exactly when a
\* start_date was given and endPeriod exactly when an end_date was given,
\* with the given values, and goes to BASE_URL/<dataset id of the code>; the
\* delimited-text retry goes to the same URL with the same bounds and differs
\* from the first request only in format (csvdata instead of jsondata).
C27_RequestBounds ==
    InPluginCall =>
        \A r \in DOMAIN requests :
            /\ CarriesBound(requests[r].params, "startPeriod", args.parameters.start_date)
            /\ CarriesBound(requests[r].params, "endPeriod", args.parameters.end_date)
            /\ DOMAIN requests[r].params \subseteq {"format", "startPeriod", "endPeriod"}
            /\ requests[r].params.format \in {"jsondata", "csvdata"}
            /\ requests[r].url
                  = <<BASE_URL, "/", Fetcher(args.dataset_type).mapping.val[requests[r].code]>>
            /\ requests[r].params.format = "csvdata"
               => /\ r > 1
                  /\ requests[r - 1].url = requests[r].url
                  /\ requests[r - 1].params
                        = [requests[r].params EXCEPT !.format = "jsondata"]

\* a retry was issued in a call with a start_date, an empty end_date: both
\* requests carry startPeriod and neither carries endPeriod
C27_Witness ==
    /\ InPluginCall
    /\ args.parameters.start_date = DateStr(DatePadded)
    /\ args.parameters.end_date = DateStr(<<>>)
    /\ Len(requests) >= 2
    /\ requests[2].params.format = "csvdata"
    /\ requests[2].params.startPeriod = DateStr(DatePadded)
    /\ "endPeriod" \notin DOMAIN requests[2].params


\* both get_interest_rates have been called with the arguments
BothReturned == DOMAIN Returned = {"wrapper", "legacy"}

\* the list both loops run over: the one given, the three key rates when none
\* (None or []) is given
CompatItems ==
    IF input.rate_types.k = "list" /\ input.rate_types.items # <<>>
    THEN input.rate_types.items
    ELSE <<"MRR", "DFR", "MLF">>

\* the codes of the list that are rate codes
CompatFetched == Range(CompatItems) \cap {"MRR", "DFR", "MLF"}

\* the arguments pass the wrapper's validation: every code is a rate code and
\* every date given is one strptime accepts
CompatValid ==
    /\ Range(CompatItems) \subseteq {"MRR", "DFR", "MLF"}
    /\ \A d \in {input.start_date, input.end_date} : d.k = "str" => StrptimeOk(d.chars)

\* the body of the first answer for the code does not decode
Undecodable(c) ==
    /\ "status_code" \in DOMAIN input.upstream[c].first
    /\ input.upstream[c].first.status_code = 200
    /\ "json" \notin DOMAIN input.upstream[c].first

\* session.get raises for the code, at the first request or at the retry
TransportRaises(c) ==
    \/ "exc" \in DOMAIN input.upstream[c].first
    \/ Undecodable(c) /\ "exc" \in DOMAIN input.upstream[c].retry

\* the retry for the code is answered by a status other than 200
RetryRefused(c) ==
    /\ Undecodable(c)
    /\ "status_code" \in DOMAIN input.upstream[c].retry
    /\ input.upstream[c].retry.status_code # 200

\* the body for the code decodes and its series has another key than the one
\* the legacy parser reads
OtherKeyBody(c) ==
    /\ "json" \in DOMAIN input.upstream[c].first
    /\ input.upstream[c].first.json = JsonOtherKey

RECURSIVE FirstOccurrences(_)
FirstOccurrences(items) ==
    IF items = <<>> THEN <<>>
    ELSE LET front == SubSeq(items, 1, Len(items) - 1)
             last == items[Len(items)]
         IN  IF last \in Range(front) THEN FirstOccurrences(front)
             ELSE Append(FirstOccurrences(front), last)

\* C29: whenever ECBDataSource.query_data returns success = true, the keys of
\* data are exactly the requested codes that belong to the vocabulary of the
\* dataset type (in the order requested), each slot holds a Series or an
\* error, every such code was requested from the upstream, and no request was
\* made for a code outside the vocabulary.
C29_SlotPerValidCode ==
    (PluginReturned /\ ret.success = TRUE) =>
        /\ DictKeys(ret.data) = {c \in Range(codes) : c \in Vocabulary(args.dataset_type)}
        /\ ret.data.keys = FirstOccurrences(FetchedItems(codes))
        /\ \A c \in DictKeys(ret.data) :
              /\ IsSeries(ret.data.val[c]) \/ IsError(ret.data.val[c])
              /\ \E r \in DOMAIN requests : requests[r].code = c
        /\ \A r \in DOMAIN requests : requests[r].code \in Vocabulary(args.dataset_type)
        /\ \A c \in Range(codes) \ Vocabulary(args.dataset_type) :
              /\ c \notin DictKeys(ret.data)
              /\ \A r \in DOMAIN requests : requests[r].code # c

\* a query for HICP and MRR as interest rates has returned: one slot, for
\* MRR, which holds the error of a refused retry, and no request for HICP
C29_Witness ==
    /\ PluginReturned
    /\ args.dataset_type = "interest_rates"
    /\ codes = <<"HICP", "MRR">>
    /\ ret.success = TRUE
    /\ ret.data.keys = <<"MRR">>
    /\ IsError(ret.data.val["MRR"])
    /\ Len(requests) = 2
    /\ requests[2].params.format = "csvdata"


\* the errors of a validation result that say the dataset type is not
\* supported, and the others
NotSupportedErrors(v) == SelectSeq(v.errors, LAMBDA e : e[Len(e)] = "' not supported")

OtherErrors(v) == SelectSeq(v.errors, LAMBDA e : e[Len(e)] # "' not supported")

\* the result is the top-level failure of a type without fetcher
IsNotImplemented(result) ==
    /\ result.success = FALSE
    /\ result.error[Len(result.error)] = "' not yet implemented"

\* C30: the catalog, validation and execution agree on the dataset types:
\* validate_parameters reports 'not supported' for a dataset type exactly
\* when the type is not in get_supported_datasets(), and a type of the
\* catalog whose parameters are otherwise valid passes validation and its
\* query_data does not end in the 'not yet implemented' failure.
C30_CatalogAgrees ==
    (caller = "plugin" /\ pc = "returned"
        /\ ~IsRaised(validate_parameters(args.dataset_type, args.parameters)))
    => LET v == validate_parameters(args.dataset_type, args.parameters)
           listed == args.dataset_type \in Range(get_supported_datasets)
       IN  /\ (NotSupportedErrors(v) # <<>>) <=> ~listed
           /\ (listed /\ OtherErrors(v) = <<>>)
              => /\ v.valid
                 /\ ~IsNotImplemented(ret)

=============================================================================
